---- MODULE Spec2Model ----
(***************************************************************************)
(* A model of the validation/decision pipeline of the text-to-SQL          *)
(* assistant: the Guardrail (sql_guardrail), the Validation Orchestrator,  *)
(* the Execution Confirmation Handler (sql_execution_handler), text_to_sql *)
(* and the conversation state machine (ConversationCommand.execute).       *)
(*                                                                         *)
(* Text is modelled as a sequence of tokens (words, the blank " " and the  *)
(* statement separator ";"), so that lower(), strip(), startswith(),       *)
(* substring tests, count() and split() are computed as the code computes  *)
(* them.  The language model (the oracle) and the database are external:   *)
(* their replies are drawn nondeterministically.                           *)
(***************************************************************************)
EXTENDS Integers, Sequences, FiniteSets, TLC

VARIABLES g, h, o, store, user_type, turn, nturns

vars == <<g, h, o, store, user_type, turn, nturns>>

(***************************************************************************)
(* Bounds                                                                  *)
(***************************************************************************)
MaxSqlLen == 3

(***************************************************************************)
(* Text as token sequences                                                 *)
(***************************************************************************)
SeqsUpTo(S, n) == UNION {[1..k -> S] : k \in 0..n}

\* str.lower() on one token
LowerTok(t) ==
    CASE t = "DROP" -> "drop"
      [] t = "DELETE" -> "delete"
      [] t = "YES" -> "yes"
      [] OTHER -> t

Lower(s) == [i \in DOMAIN s |-> LowerTok(s[i])]

\* whitespace: a blank or a line break
IsBlank(t) == t \in {" ", "\n"}

RECURSIVE LStrip(_)
LStrip(s) == IF s # <<>> /\ IsBlank(Head(s)) THEN LStrip(Tail(s)) ELSE s

RECURSIVE RStrip(_)
RStrip(s) ==
    IF s # <<>> /\ IsBlank(s[Len(s)]) THEN RStrip(SubSeq(s, 1, Len(s) - 1)) ELSE s

\* str.strip()
Strip(s) == RStrip(LStrip(s))

\* kw is a substring of the single token t
TokContains(t, kw) == t = kw \/ (t = "dropped" /\ kw = "drop")

\* t.startswith(kw) for a single token t
TokStartsWith(t, kw) == t = kw \/ (t = "dropped" /\ kw = "drop")

\* a token that is not made of word characters
IsPunct(t) == t \in {" ", "\n", ";", "(", ")"}

\* the phrase p (a token sequence) occurs in s
ContainsPhrase(s, p) ==
    \E i \in 0..(Len(s) - Len(p)) : \A j \in 1..Len(p) : s[i + j] = p[j]

\* len(s.split()): the number of maximal runs of non-blank tokens
WordCount(s) ==
    Cardinality({i \in DOMAIN s : ~IsBlank(s[i]) /\ (i = 1 \/ IsBlank(s[i - 1]))})

\* n words separated by blanks
RECURSIVE Words(_)
Words(n) == IF n = 0 THEN <<>> ELSE IF n = 1 THEN <<"w">> ELSE <<"w", " ">> \o Words(n - 1)

\* s.startswith(kw), kw a single word
StartsWith(s, kw) == s # <<>> /\ TokStartsWith(s[1], kw)

\* kw in s, kw a single word
Contains(s, kw) == \E i \in DOMAIN s : TokContains(s[i], kw)

\* " kw " in s: the word delimited by a blank on both sides
ContainsSpaced(s, kw) ==
    \E i \in DOMAIN s :
        /\ i + 2 <= Len(s)
        /\ s[i] = " "
        /\ s[i + 1] = kw
        /\ s[i + 2] = " "

\* s.count(tok)
Count(s, tok) == Cardinality({i \in DOMAIN s : s[i] = tok})

\* s.split(sep)
RECURSIVE SplitAcc(_, _, _)
SplitAcc(s, sep, cur) ==
    IF s = <<>> THEN <<cur>>
    ELSE IF Head(s) = sep THEN <<cur>> \o SplitAcc(Tail(s), sep, <<>>)
    ELSE SplitAcc(Tail(s), sep, Append(cur, Head(s)))

Split(s, sep) == SplitAcc(s, sep, <<>>)

(***************************************************************************)
(* sql_guardrail                                                           *)
(***************************************************************************)
\* What the oracle may answer to the guardrail prompt: a JSON object with a
\* "decision" (any string, or none), text that is no JSON object, or no
\* answer at all (the call raises).
GuardDecisionsRaw == {"accept", "human_verification", "reject", "review", "missing"}

GuardReplies ==
    [kind : {"json"}, decision : GuardDecisionsRaw]
        \cup [kind : {"text", "raise"}, decision : {"missing"}]

Raised == [raised |-> TRUE, accept |-> FALSE, decision |-> "raised", feedback |-> "raised"]

GuardResult(acc, dec, fb) ==
    [raised |-> FALSE, accept |-> acc, decision |-> dec, feedback |-> fb]

\* the except branch: deterministic rules on the lowered, stripped text
GuardrailFallback(sql, ut) ==
    LET sql_lc == Strip(Lower(sql))
        is_select == StartsWith(sql_lc, "select") \/ StartsWith(sql_lc, "with")
        is_insert_update == \E k \in {"insert", "update"} : StartsWith(sql_lc, k)
        is_delete == StartsWith(sql_lc, "delete")
        contains_drop == Contains(sql_lc, "drop")
        contains_ddl ==
            \E k \in {"alter", "drop", "create", "truncate", "grant", "revoke"} :
                ContainsSpaced(sql_lc, k)
        multi_stmt == Count(sql_lc, ";") > 1
        parts == Split(sql_lc, ";")
        statements ==
            SelectSeq([i \in DOMAIN parts |-> Strip(parts[i])], LAMBDA p : p # <<>>)
        all_insert == \A i \in DOMAIN statements : StartsWith(statements[i], "insert")
    IN  IF ut = "admin"
        THEN IF is_select \/ is_insert_update \/ is_delete \/ contains_ddl
             THEN GuardResult(TRUE, "accept", "admin_allowed")
             ELSE IF multi_stmt
             THEN GuardResult(FALSE, "human_verification", "admin_multi_statement")
             ELSE GuardResult(FALSE, "reject", "admin_malicious")
        ELSE IF is_delete \/ contains_drop
             THEN GuardResult(FALSE, "human_verification", "delete_drop_verification")
             ELSE IF multi_stmt /\ is_insert_update
             THEN IF all_insert
                  THEN GuardResult(TRUE, "accept", "multi_insert")
                  ELSE GuardResult(FALSE, "human_verification", "multi_statement")
             ELSE IF (is_select \/ is_insert_update) /\ ~contains_ddl /\ ~multi_stmt
             THEN GuardResult(TRUE, "accept", "oracle_text")
             ELSE IF contains_ddl
             THEN GuardResult(FALSE, "human_verification", "oracle_text")
             ELSE GuardResult(FALSE, "reject", "oracle_text")

\* the try branch: the oracle's JSON decision is returned as it is
GuardrailParsed(sql, ut, reply) ==
    LET decision == IF reply.decision = "missing" THEN "reject" ELSE reply.decision
    IN  GuardResult(decision = "accept", decision, "oracle_feedback")

sql_guardrail(sql, ut, reply) ==
    IF reply.kind = "raise" THEN Raised
    ELSE IF reply.kind = "json" THEN GuardrailParsed(sql, ut, reply)
    ELSE GuardrailFallback(sql, ut)

(***************************************************************************)
(* Specification SpecGuard: one call of sql_guardrail on any input         *)
(***************************************************************************)
SqlTokens == {"select", "insert", "update", "delete", "DROP", "create", "t", " ", ";", "--"}

UserTypes == {"user", "admin"}

Idle == [pc |-> "idle"]

GuardInit ==
    /\ g \in [pc : {"start"}, sql : SeqsUpTo(SqlTokens, MaxSqlLen), user_type : UserTypes,
              reply : GuardReplies, result : {Raised}]
    /\ h = Idle
    /\ o = Idle
    /\ store = <<>>
    /\ user_type = "user"
    /\ turn = Idle
    /\ nturns = 0

GuardrailCall ==
    /\ g.pc = "start"
    /\ g' = [g EXCEPT !.pc = "done", !.result = sql_guardrail(g.sql, g.user_type, g.reply)]
    /\ UNCHANGED <<h, o, store, user_type, turn, nturns>>

GuardNext == GuardrailCall

SpecGuard == GuardInit /\ [][GuardNext]_vars

\* the leading keyword of a SQL text, case and surrounding blanks ignored
LeadingKeyword(sql) ==
    LET s == Strip(Lower(sql)) IN IF s = <<>> THEN "" ELSE s[1]

\* C1: for every SQL text whose leading keyword is DELETE or DROP and user_type
\* 'user', sql_guardrail returns decision human_verification, whether the
\* oracle's reply parses as JSON (whatever its decision) or not.
C1_DeleteDropUserNeedsVerification ==
    (/\ g.pc = "done"
     /\ g.user_type = "user"
     /\ LeadingKeyword(g.sql) \in {"delete", "drop"}
     /\ ~g.result.raised)
        => g.result.decision = "human_verification"

\* the injection patterns the admin prompt names, as far as they are tokens
InjectionMarkers == {"--", "/*", "*/"}

HasInjectionMarker(sql) == \E i \in DOMAIN sql : sql[i] \in InjectionMarkers

\* sql_guardrail ran its except branch: the oracle answered, with text that is
\* no JSON object
FallbackRan == g.pc = "done" /\ g.reply.kind = "text"

\* C15: for every SQL text whose leading keyword is DELETE or DROP and
\* user_type 'admin', the fallback of sql_guardrail returns accept or
\* human_verification, never reject, and accept when the text has no
\* injection marker
C15_AdminDeleteDropFallbackAccepts ==
    (/\ FallbackRan
     /\ g.user_type = "admin"
     /\ LeadingKeyword(g.sql) \in {"delete", "drop"})
        => /\ g.result.decision \in {"accept", "human_verification"}
           /\ ~HasInjectionMarker(g.sql) => g.result.decision = "accept"

\* line 150: the statements of a text, separated by ';', blank ones dropped
Statements(sql) ==
    LET parts == Split(Strip(Lower(sql)), ";")
    IN  SelectSeq([i \in DOMAIN parts |-> Strip(parts[i])], LAMBDA p : p # <<>>)

\* line 151
AllInsert(sql) == \A i \in DOMAIN Statements(sql) : StartsWith(Statements(sql)[i], "insert")

\* C16: at user tier the fallback of sql_guardrail answers human_verification
\* for every text of two or more ';'-separated statements, except that a
\* batch of INSERT statements only may be accepted
C16_UserMultiStatementNeedsVerification ==
    (/\ FallbackRan
     /\ g.user_type = "user"
     /\ Len(Statements(g.sql)) >= 2)
        => \/ g.result.decision = "human_verification"
           \/ AllInsert(g.sql) /\ g.result.decision = "accept"

(***************************************************************************)
(* The database and the Execution Failure Analyzer, as seen by a caller    *)
(***************************************************************************)
\* sql_execution_analyzer returns a failure_type out of three (any other is
\* replaced by unknown) and a should_regenerate flag, both taken from the
\* oracle's JSON when it parses.
FailureTypes == {"sql_structure", "valid_execution", "unknown"}

AnalysisResults == [failure_type : FailureTypes, should_regenerate : BOOLEAN]

NoAnalysis == [failure_type |-> "unknown", should_regenerate |-> FALSE]

\* One execution of a statement: it returns rows, or it raises and the
\* analyzer then classifies the error; a CREATE is followed by a catalog scan
\* that may fail.
DbOutcomes ==
    [db : {"ok"}, analysis : {NoAnalysis}, scan : {"ok", "fail"}]
        \cup [db : {"raise"}, analysis : AnalysisResults, scan : {"ok"}]

\* a dict of the tools' and the command's vocabulary; an absent key is "" (or
\* the empty text), rows are "none" or "rows"
Dict(ty, query, sql, decision, feedback, rows, user_response) ==
    [type |-> ty, query |-> query, sql |-> sql, decision |-> decision,
     feedback |-> feedback, rows |-> rows, user_response |-> user_response,
     requires_clarification |-> FALSE, original_query |-> <<>>]

EmptyDict == Dict("", <<>>, <<>>, "", "", "none", <<>>)

\* one call of execute_sql_query, as logged by the database
Execution(sql, env) == [sql |-> sql, ok |-> env.db = "ok"]

(***************************************************************************)
(* sql_execution_handler                                                   *)
(***************************************************************************)
AffirmativeSet ==
    {<<"yes">>, <<"y">>, <<"execute">>, <<"run">>, <<"ok">>, <<"sure">>, <<"proceed">>}

NegativeSet ==
    {<<"no">>, <<"n">>, <<"cancel">>, <<"stop">>, <<"abort">>, <<"don't">>, <<"dont">>}

\* a handler that regenerates whenever the analyzer says should_regenerate
ShouldRegenerateOnFlag(analysis) == analysis.should_regenerate

\* sql_execution_handler.py line 109
ShouldRegenerate(analysis) ==
    analysis.should_regenerate /\ analysis.failure_type = "sql_structure"

\* the affirmative branch: the statement is executed as it was received
HandlerExecute(sql_query, user_response, env) ==
    IF env.db = "ok"
    THEN LET is_create_statement == StartsWith(Strip(Lower(sql_query)), "create")
             feedback ==
                 IF ~is_create_statement THEN "executed"
                 ELSE IF env.scan = "ok" THEN "executed_schema_updated"
                 ELSE "executed_scan_failed"
         IN  [out |-> Dict("", sql_query, <<>>, "executed_after_verification", feedback,
                           "rows", user_response),
              executed |-> <<Execution(sql_query, env)>>]
    ELSE IF ShouldRegenerate(env.analysis)
    THEN [out |-> Dict("regeneration_request", <<>>, sql_query, "", "regeneration_feedback",
                       "none", user_response),
          executed |-> <<Execution(sql_query, env)>>]
    ELSE [out |-> Dict("", sql_query, <<>>, "reject", "user_friendly_message", "none",
                       user_response),
          executed |-> <<Execution(sql_query, env)>>]

\* the negative branch
HandlerCancel(sql_query, user_response) ==
    [out |-> Dict("", sql_query, <<>>, "cancelled_by_user", "cancelled", "none", user_response),
     executed |-> <<>>]

\* an ambiguous branch that answers with the trimmed query
HandlerAmbiguousTrimmed(sql_query, user_response) ==
    [out |-> Dict("", Strip(sql_query), <<>>, "human_verification", "please_respond_yes_or_no",
                  "none", user_response),
     executed |-> <<>>]

\* the ambiguous branch
HandlerAmbiguous(sql_query, user_response) ==
    [out |-> Dict("", sql_query, <<>>, "human_verification", "please_respond_yes_or_no",
                  "none", user_response),
     executed |-> <<>>]

sql_execution_handler(sql_query, user_response, env) ==
    LET user_response_lower == Strip(Lower(user_response))
    IN  IF user_response_lower \in AffirmativeSet
        THEN HandlerExecute(sql_query, user_response, env)
        ELSE IF user_response_lower \in NegativeSet
        THEN HandlerCancel(sql_query, user_response)
        ELSE HandlerAmbiguous(sql_query, user_response)

(***************************************************************************)
(* Specification SpecHandler: sql_execution_handler called again and again,*)
(* each time on the query its previous human_verification answer returned  *)
(***************************************************************************)
HandlerReplies ==
    {<<"yes">>, <<"YES", " ">>, <<"ok">>, <<"no">>, <<"cancel">>,
     <<"maybe">>, <<>>, <<"yes", " ", "please">>}

\* the handler looks at the statement only for a leading create
HandlerSqlTokens == {"select", "delete", "DROP", "create", "t", " "}

HandlerInit ==
    /\ h \in [pc : {"ready"}, sql0 : SeqsUpTo(HandlerSqlTokens, MaxSqlLen)]
    /\ g = Idle
    /\ o = Idle
    /\ store = <<>>
    /\ user_type = "user"
    /\ turn = Idle
    /\ nturns = 0

\* the query handed to the next call: the one the last answer returned
HandlerInput == IF h.pc = "ready" THEN h.sql0 ELSE h.out.query

HandlerCall ==
    /\ h.pc = "ready" \/ (h.pc = "called" /\ h.out.decision = "human_verification")
    /\ \E reply \in HandlerReplies, env \in DbOutcomes :
         LET r == sql_execution_handler(HandlerInput, reply, env)
         IN  h' = [pc |-> "called", sql0 |-> h.sql0, sql |-> HandlerInput, reply |-> reply,
                   out |-> r.out, executed |-> r.executed,
                   analysis |-> IF r.executed # <<>> /\ ~r.executed[1].ok
                                THEN env.analysis ELSE NoAnalysis]
    /\ UNCHANGED <<g, o, store, user_type, turn, nturns>>

HandlerNext == HandlerCall

SpecHandler == HandlerInit /\ [][HandlerNext]_vars

IsAmbiguous(reply) ==
    /\ Strip(Lower(reply)) \notin AffirmativeSet
    /\ Strip(Lower(reply)) \notin NegativeSet

\* C10: sql_execution_handler called with a reply outside both sets executes
\* nothing and returns decision human_verification with the input query
\* verbatim; fed back any number of times, the query is still the first one.
C10_AmbiguousReplyKeepsQuery ==
    (h.pc = "called" /\ IsAmbiguous(h.reply)) =>
        /\ h.executed = <<>>
        /\ h.out.decision = "human_verification"
        /\ h.out.query = h.sql
        /\ h.out.query = h.sql0

\* an ambiguous reply answered on a query that is not already stripped
C10_Witness ==
    /\ h.pc = "called"
    /\ IsAmbiguous(h.reply)
    /\ h.sql0 # Strip(h.sql0)
    /\ h.sql0 # <<>>
    /\ h.out.decision = "human_verification"

\* the user affirmed and the execution raised
AffirmedExecutionRaised ==
    /\ h.pc = "called"
    /\ Strip(Lower(h.reply)) \in AffirmativeSet
    /\ h.executed # <<>>
    /\ ~h.executed[1].ok

\* C11: when the user affirms and the execution raises, sql_execution_handler
\* returns a regeneration_request carrying the failed SQL exactly when the
\* analyzer says sql_structure with should_regenerate true; otherwise it
\* returns the terminal decision reject with the analyzer's user-facing message.
C11_RegenerationIffStructural ==
    AffirmedExecutionRaised =>
        IF h.analysis.failure_type = "sql_structure" /\ h.analysis.should_regenerate
        THEN /\ h.out.type = "regeneration_request"
             /\ h.out.sql = h.sql
        ELSE /\ h.out.type # "regeneration_request"
             /\ h.out.decision = "reject"
             /\ h.out.feedback = "user_friendly_message"

\* the analyzer said valid_execution but should_regenerate, and the handler
\* ended the request
C11_Witness ==
    /\ AffirmedExecutionRaised
    /\ h.analysis.failure_type = "valid_execution"
    /\ h.analysis.should_regenerate
    /\ h.out.decision = "reject"

(***************************************************************************)
(* The validators behind the Validation Orchestrator                       *)
(***************************************************************************)
NoResult == [none |-> TRUE]

\* a validator that raised instead of returning
RaisedResult == [none |-> TRUE, raised |-> TRUE]

\* The oracle's JSON answer to the schema prompt: its validation_result and
\* its "suggestions", which the code copies without looking at its type.
SchemaReplies ==
    [validation_result : {"pass"}, suggestions : {"list", "null"}]
        \cup [validation_result : {"clarification_needed", "fail"}, suggestions : {"list"}]

\* lines 192-231: the extracted references the catalog does not have (the
\* extraction and the catalog are both in lower case)
_validate_schema_references(extracted_refs, actual_schema) ==
    [missing_tables |-> {t \in extracted_refs.tables : t \notin actual_schema.all_tables},
     missing_columns |-> {c \in extracted_refs.columns : c \notin actual_schema.all_columns}]

\* lines 348-378: a missing table or column takes precedence over the
\* oracle's answer.  Line 361 concatenates the two lists of suggestions
\* (line 360 the two lists of issues): when the oracle's is null the
\* concatenation raises
_combine_validation_results(validation_result, reply) ==
    IF validation_result.missing_tables # {} \/ validation_result.missing_columns # {}
    THEN IF reply.suggestions = "null" THEN RaisedResult
         ELSE [none |-> FALSE, raised |-> FALSE, is_valid |-> FALSE,
               validation_result |-> "clarification_needed", suggestions |-> "list",
               missing_tables |-> validation_result.missing_tables,
               missing_columns |-> validation_result.missing_columns]
    ELSE [none |-> FALSE, raised |-> FALSE, is_valid |-> reply.validation_result = "pass",
          validation_result |-> reply.validation_result, suggestions |-> reply.suggestions,
          missing_tables |-> validation_result.missing_tables,
          missing_columns |-> validation_result.missing_columns]

\* strict_schema_validator catches every exception of its own (lines 74-84)
\* and answers is_valid false with empty lists then; it never raises
strict_schema_validator(sql, validation_result, reply) ==
    IF sql = <<>>
    THEN [none |-> FALSE, raised |-> FALSE, is_valid |-> FALSE,
          validation_result |-> "fail", suggestions |-> "list",
          missing_tables |-> {}, missing_columns |-> {}]
    ELSE IF _combine_validation_results(validation_result, reply).raised
    THEN [none |-> FALSE, raised |-> FALSE, is_valid |-> FALSE,
          validation_result |-> "fail", suggestions |-> "list",
          missing_tables |-> {}, missing_columns |-> {}]
    ELSE _combine_validation_results(validation_result, reply)

\* the catalog of the database, and what _validate_schema_references finds
\* for a statement whose table it has and for one whose table it lacks
LiveCatalog == [all_tables |-> {"t"}, all_columns |-> {"c"}]

CatalogChecks ==
    {_validate_schema_references([tables |-> {table}, columns |-> {}], LiveCatalog) :
         table \in {"t", "x"}}

\* the oracle call of the detector: it answers is_injection, or it fails
\* (LLMSession or chat_completion raises)
InjectionReplies ==
    [failed : {FALSE}, is_injection : BOOLEAN] \cup [failed : {TRUE}, is_injection : {FALSE}]

\* sql_injection_detector: the oracle's is_injection, never an exception; a
\* failed oracle call is answered is_injection false (lines 153-159)
sql_injection_detector(sql, reply) ==
    IF sql = <<>>
    THEN [none |-> FALSE, raised |-> FALSE, is_injection |-> FALSE,
          reason |-> "Empty query"]
    ELSE IF reply.failed
    THEN [none |-> FALSE, raised |-> FALSE, is_injection |-> FALSE,
          reason |-> "LLM analysis failed - defaulting to safe"]
    ELSE [none |-> FALSE, raised |-> FALSE, is_injection |-> reply.is_injection,
          reason |-> "reason"]

\* sql_query_validator answers is_correct or raises
QueryReplies == {"correct", "incorrect", "raise"}

sql_query_validator(reply) ==
    IF reply = "raise" THEN RaisedResult
    ELSE [none |-> FALSE, raised |-> FALSE, is_correct |-> reply = "correct"]

\* what the guardrail task returns to _execute_validation_task; user_type
\* records the tier the call was made with (lines 304, 365 and 399), which
\* the code does not read back
GuardrailTask(sql, ut, reply) ==
    LET r == sql_guardrail(sql, ut, reply)
    IN  IF r.raised THEN RaisedResult
        ELSE [none |-> FALSE, raised |-> FALSE, decision |-> r.decision,
              accept |-> r.accept, feedback |-> r.feedback, user_type |-> ut]

(***************************************************************************)
(* _analyze_query_complexity                                               *)
(***************************************************************************)
\* \bselect\b at position j
IsWordAt(s, j, w) ==
    /\ s[j] = w
    /\ (j = 1 \/ IsPunct(s[j - 1]))
    /\ (j = Len(s) \/ IsPunct(s[j + 1]))

\* \b\( at position i: an opening parenthesis right after a word character
IsParenAfterWord(s, i) == s[i] = "(" /\ i > 1 /\ ~IsPunct(s[i - 1])

\* the '.' of a pattern matches no line break: s[i..j] is on one line
OneLine(s, i, j) == \A k \in i..j : s[k] # "\n"

\* the four subquery patterns (re.search without re.DOTALL)
SubqueryPattern(s) ==
    \/ \E i, j, k \in DOMAIN s :
         /\ i < j /\ j < k /\ s[i] = "(" /\ IsWordAt(s, j, "select") /\ s[k] = ")"
         /\ OneLine(s, i, k)
    \/ \E kw \in {"where", "from", "in"} :
         \E a, i, j \in DOMAIN s :
             /\ a < i /\ i < j /\ IsWordAt(s, a, kw) /\ IsParenAfterWord(s, i)
             /\ IsWordAt(s, j, "select")
             /\ OneLine(s, a, j)

ComplexityScore(user_query, generated_sql) ==
    LET sql_lower == Lower(generated_sql)
        sql_words == WordCount(generated_sql)
        user_words == WordCount(user_query)
    IN    (IF Contains(sql_lower, "join") THEN 2 ELSE 0)
        + (IF Contains(sql_lower, "(") /\ Contains(sql_lower, "select")
              /\ SubqueryPattern(sql_lower) THEN 2 ELSE 0)
        + (IF Contains(sql_lower, "union") \/ Contains(sql_lower, "intersect") THEN 3 ELSE 0)
        + (IF ContainsPhrase(sql_lower, <<"group", " ", "by">>) \/ Contains(sql_lower, "having")
           THEN 1 ELSE 0)
        + (IF ContainsPhrase(sql_lower, <<"order", " ", "by">>) THEN 1 ELSE 0)
        + (IF sql_words > 50 THEN 2 ELSE IF sql_words > 20 THEN 1 ELSE 0)
        + (IF user_words > 20 THEN 1 ELSE 0)
        + (IF StartsWith(sql_lower, "update") \/ StartsWith(sql_lower, "delete") THEN 2
           ELSE IF StartsWith(sql_lower, "insert") THEN 1 ELSE 0)

\* an analyzer whose high tier starts above 6
_analyze_query_complexity_above(user_query, generated_sql) ==
    LET complexity_score == ComplexityScore(user_query, generated_sql)
    IN  IF complexity_score > 6
        THEN [complexity |-> "high", complexity_score |-> complexity_score, strategy |-> "parallel"]
        ELSE IF complexity_score >= 3
        THEN [complexity |-> "medium", complexity_score |-> complexity_score,
              strategy |-> "sequential"]
        ELSE [complexity |-> "low", complexity_score |-> complexity_score, strategy |-> "minimal"]

_analyze_query_complexity(user_query, generated_sql) ==
    LET complexity_score == ComplexityScore(user_query, generated_sql)
    IN  IF complexity_score >= 6
        THEN [complexity |-> "high", complexity_score |-> complexity_score, strategy |-> "parallel"]
        ELSE IF complexity_score >= 3
        THEN [complexity |-> "medium", complexity_score |-> complexity_score,
              strategy |-> "sequential"]
        ELSE [complexity |-> "low", complexity_score |-> complexity_score, strategy |-> "minimal"]

(***************************************************************************)
(* The three strategies.  A strategy returns validation_results: here the  *)
(* sequence of its entries in insertion order.  What the validators answer *)
(* is the oracle's choice, so each strategy is the set of the              *)
(* validation_results it can return.                                       *)
(***************************************************************************)
\* one entry of validation_results
_execute_validation_task(task_name, result, parallel) ==
    IF result.raised
    THEN [name |-> task_name, result |-> NoResult, parallel |-> parallel, status |-> "failed"]
    ELSE [name |-> task_name, result |-> result, parallel |-> parallel, status |-> "completed"]

\* the outcomes a validator can have, given what the oracle and the catalog answer
SchemaOutcomes(sql) ==
    {strict_schema_validator(sql, validation_result, reply) :
         validation_result \in CatalogChecks, reply \in SchemaReplies}

InjectionOutcomes(sql) == {sql_injection_detector(sql, reply) : reply \in InjectionReplies}

QueryOutcomes == {sql_query_validator(reply) : reply \in QueryReplies}

GuardrailOutcomes(sql, ut) == {GuardrailTask(sql, ut, reply) : reply \in GuardReplies}

TaskOutcomes(task_name, sql, ut) ==
    IF task_name = "schema_validation" THEN SchemaOutcomes(sql)
    ELSE IF task_name = "injection_detection" THEN InjectionOutcomes(sql)
    ELSE IF task_name = "query_validation" THEN QueryOutcomes
    ELSE GuardrailOutcomes(sql, ut)

\* the entries one call of _execute_validation_task can produce: task_func()
\* returned what the validator returns, or it raised (the validators are
\* called through the decorators tool_call and observe, outside their own
\* try blocks) and the except branch of lines 245-252 recorded the failure
Entries(task_name, sql, ut) ==
    {_execute_validation_task(task_name, result, FALSE) :
         result \in TaskOutcomes(task_name, sql, ut) \cup {RaisedResult}}

\* the entries of a check of the parallel batch: the check ended, or it had
\* not ended 30 s after its result was asked for and is recorded as failed
ParallelEntries(task_name, sql, ut) ==
    {_execute_validation_task(task_name, result, TRUE) :
         result \in TaskOutcomes(task_name, sql, ut) \cup {RaisedResult}}

\* the guardrail runs when the three checks of the batch are collected
_execute_parallel_validation(sql, ut) ==
    {<<schema, injection, query, guardrail>> :
         schema \in ParallelEntries("schema_validation", sql, ut),
         injection \in ParallelEntries("injection_detection", sql, ut),
         query \in ParallelEntries("query_validation", sql, ut),
         guardrail \in Entries("guardrail", sql, ut)}

\* a sequential strategy that goes on after an invalid schema result
SchemaStopsOnFailureOnly(schema) == schema.status = "failed"

\* the early exits of _execute_sequential_validation
SchemaStops(schema) ==
    \/ schema.status = "failed"
    \/ ~schema.result.none /\ ~schema.result.is_valid

InjectionStops(injection) ==
    \/ injection.status = "failed"
    \/ ~injection.result.none /\ injection.result.is_injection

_execute_sequential_validation(sql, ut) ==
    UNION {IF SchemaStops(schema)
           THEN {<<schema>>}
           ELSE UNION {IF InjectionStops(injection)
                       THEN {<<schema, injection>>}
                       ELSE {<<schema, injection, query, guardrail>> :
                                 query \in Entries("query_validation", sql, ut),
                                 guardrail \in Entries("guardrail", sql, ut)} :
                       injection \in Entries("injection_detection", sql, ut)} :
           schema \in Entries("schema_validation", sql, ut)}

\* a minimal strategy that also stops when the Injection Detector raised
MinimalStopsOnFailure(injection) ==
    \/ injection.status = "failed"
    \/ ~injection.result.none /\ injection.result.is_injection

\* the early exit of _execute_minimal_validation
MinimalStops(injection) == ~injection.result.none /\ injection.result.is_injection

_execute_minimal_validation(sql, ut) ==
    UNION {IF MinimalStops(injection)
           THEN {<<injection>>}
           ELSE {<<injection, guardrail>> : guardrail \in Entries("guardrail", sql, ut)} :
           injection \in Entries("injection_detection", sql, ut)}

\* step 2 of validation_orchestrator
StrategyResults(strategy, sql, ut) ==
    IF strategy = "parallel" THEN _execute_parallel_validation(sql, ut)
    ELSE IF strategy = "sequential" THEN _execute_sequential_validation(sql, ut)
    ELSE IF strategy = "minimal" THEN _execute_minimal_validation(sql, ut)
    ELSE _execute_sequential_validation(sql, ut)

\* the validators called in a run, in order: one call per entry
CallsOf(validation_results) ==
    [i \in DOMAIN validation_results |-> validation_results[i].name]

(***************************************************************************)
(* _analyze_validation_results                                             *)
(***************************************************************************)
\* an aggregation that counts a request for verification as a rejection
GuardrailRejectsOrVerifies(result) == result.decision \in {"reject", "human_verification"}

\* the guardrail entry invalidates the verdict
GuardrailRejects(result) == result.decision = "reject"

\* what one entry adds to (is_valid, errors); raised when the aggregation of
\* the entry raises (extend() of a value that is no list)
AnalyzeStep(acc, step) ==
    IF acc.raised THEN acc
    ELSE IF step.status = "failed"
    THEN [acc EXCEPT !.is_valid = FALSE, !.errors = Append(@, step.name)]
    ELSE IF step.result.none THEN acc
    ELSE IF step.name = "schema_validation"
    THEN IF ~step.result.is_valid
         THEN [acc EXCEPT !.is_valid = FALSE]
         ELSE IF step.result.suggestions = "null" THEN [acc EXCEPT !.raised = TRUE]
         ELSE acc
    ELSE IF step.name = "injection_detection"
    THEN IF step.result.is_injection
         THEN [acc EXCEPT !.is_valid = FALSE, !.errors = Append(@, "SQL injection detected")]
         ELSE acc
    ELSE IF step.name = "query_validation"
    THEN IF ~step.result.is_correct
         THEN [acc EXCEPT !.is_valid = FALSE, !.errors = Append(@, "Query validation failed")]
         ELSE acc
    ELSE IF step.name = "guardrail"
    THEN IF GuardrailRejects(step.result)
         THEN [acc EXCEPT !.is_valid = FALSE, !.errors = Append(@, "Guardrail rejected")]
         ELSE acc
    ELSE acc

\* the loop over the entries, in insertion order
RECURSIVE AnalyzeUpTo(_, _)
AnalyzeUpTo(validation_results, n) ==
    IF n = 0 THEN [raised |-> FALSE, is_valid |-> TRUE, errors |-> <<>>]
    ELSE AnalyzeStep(AnalyzeUpTo(validation_results, n - 1), validation_results[n])

_analyze_validation_results(validation_results) ==
    AnalyzeUpTo(validation_results, Len(validation_results))

(***************************************************************************)
(* The verdict                                                             *)
(***************************************************************************)
Verdict(is_valid, errors, complexity, strategy, validation_results) ==
    [raised |-> FALSE, is_valid |-> is_valid, errors |-> errors,
     query_complexity |-> complexity, validation_strategy |-> strategy,
     validation_results |-> validation_results]

\* the exception left validation_orchestrator
RaisedVerdict ==
    [raised |-> TRUE, is_valid |-> FALSE, errors |-> <<>>, query_complexity |-> "unknown",
     validation_strategy |-> "sequential", validation_results |-> <<>>]

\* validation_orchestrator_output_to_dict reads v.result, v.parallel, v.status
\* and v.error of every entry: the entries must be ValidationTaskResult
\* objects, and it raises on the dicts of _execute_validation_task
validation_orchestrator_output_to_dict(output, entries_are_objects) ==
    IF output.validation_results # <<>> /\ ~entries_are_objects THEN RaisedVerdict ELSE output

\* the except branch: validation_results is what the strategy returned (the
\* dicts of _execute_validation_task), or still empty
OrchestratorExcept(validation_results) ==
    validation_orchestrator_output_to_dict(
        Verdict(FALSE, <<"Validation orchestrator error">>, "unknown", "sequential",
                validation_results),
        FALSE)

\* steps 3 and 4 of validation_orchestrator, and its except branch
OrchestratorVerdict(complexity_analysis, validation_results) ==
    IF _analyze_validation_results(validation_results).raised
    THEN OrchestratorExcept(validation_results)
    ELSE validation_orchestrator_output_to_dict(
             Verdict(_analyze_validation_results(validation_results).is_valid,
                     _analyze_validation_results(validation_results).errors,
                     complexity_analysis.complexity, complexity_analysis.strategy,
                     validation_results),
             TRUE)

\* the verdicts validation_orchestrator can return on these inputs
validation_orchestrator(user_query, generated_sql, ut) ==
    UNION {{OrchestratorVerdict(complexity_analysis, validation_results) :
                validation_results \in
                    StrategyResults(complexity_analysis.strategy, generated_sql, ut)} :
           complexity_analysis \in {_analyze_query_complexity(user_query, generated_sql)}}

(***************************************************************************)
(* Specification SpecOrch: one run of validation_orchestrator              *)
(***************************************************************************)
OrchSqls ==
    {<<"select", " ", "t">>,
     <<"delete", " ", "from", " ", "t">>,
     <<"select", " ", "t", " ", "join", " ", "t", " ", "order", " ", "by", " ", "t">>,
     <<"update", " ", "t", " ", "join", " ", "t">>,
     <<"select", " ", "t", " ", "join", " ", "t", " ", "union", " ", "t">>,
     <<"update", " ", "t", " ", "join", " ", "t", " ", "union", " ", "t">>}

OrchQueries == {<<"show", " ", "t">>, Words(21)}

OrchInit ==
    /\ o \in [pc : {"start"}, user_query : OrchQueries, sql : OrchSqls, user_type : UserTypes,
              complexity : {""}, complexity_score : {0}, strategy : {""},
              validation_results : {<<>>}, calls : {<<>>}, verdict : {RaisedVerdict}]
    /\ g = Idle
    /\ h = Idle
    /\ store = <<>>
    /\ user_type = "user"
    /\ turn = Idle
    /\ nturns = 0

Orchestrate ==
    /\ o.pc = "start"
    /\ \E complexity_analysis \in {_analyze_query_complexity(o.user_query, o.sql)} :
         \E validation_results \in StrategyResults(complexity_analysis.strategy, o.sql,
                                                   o.user_type) :
            o' = [o EXCEPT !.pc = "done",
                           !.complexity = complexity_analysis.complexity,
                           !.complexity_score = complexity_analysis.complexity_score,
                           !.strategy = complexity_analysis.strategy,
                           !.validation_results = validation_results,
                           !.calls = CallsOf(validation_results),
                           !.verdict = OrchestratorVerdict(complexity_analysis,
                                                           validation_results)]
    /\ UNCHANGED <<g, h, store, user_type, turn, nturns>>

OrchNext == Orchestrate

SpecOrch == OrchInit /\ [][OrchNext]_vars

\* the run took the sequential strategy and its schema entry says is_valid false
SequentialSchemaInvalid ==
    /\ o.pc = "done"
    /\ o.strategy = "sequential"
    /\ \E i \in DOMAIN o.validation_results :
         /\ o.validation_results[i].name = "schema_validation"
         /\ o.validation_results[i].status = "completed"
         /\ ~o.validation_results[i].result.is_valid

\* C6: under the sequential strategy, when the Schema Validator returns
\* is_valid false, no other validator is called in that run, and the verdict
\* the run returns has is_valid false.
C6_SequentialStopsAtInvalidSchema ==
    SequentialSchemaInvalid =>
        /\ o.calls = <<"schema_validation">>
        /\ ~o.verdict.raised
        /\ ~o.verdict.is_valid

\* a sequential run that ended on an invalid schema result
C6_Witness ==
    /\ SequentialSchemaInvalid
    /\ ~o.verdict.is_valid
    /\ o.calls = <<"schema_validation">>

\* a completed step that reports a logical negative
LogicalNegative(step) ==
    /\ step.status = "completed"
    /\ ~step.result.none
    /\ \/ step.name = "schema_validation" /\ ~step.result.is_valid
       \/ step.name = "injection_detection" /\ step.result.is_injection
       \/ step.name = "query_validation" /\ ~step.result.is_correct
       \/ step.name = "guardrail" /\ step.result.decision = "reject"

\* C7: the verdict a run returns has is_valid true exactly when no entry has
\* status failed and no completed entry reports a logical negative; a
\* guardrail decision of human_verification is no logical negative.
C7_ValidIffNoFailureNoNegative ==
    (o.pc = "done" /\ ~o.verdict.raised) =>
        (o.verdict.is_valid <=>
            \A i \in DOMAIN o.verdict.validation_results :
                /\ o.verdict.validation_results[i].status # "failed"
                /\ ~LogicalNegative(o.verdict.validation_results[i]))

\* a valid verdict whose guardrail entry asks for human verification
C7_Witness ==
    /\ o.pc = "done"
    /\ ~o.verdict.raised
    /\ o.verdict.is_valid
    /\ \E i \in DOMAIN o.verdict.validation_results :
         /\ o.verdict.validation_results[i].name = "guardrail"
         /\ o.verdict.validation_results[i].status = "completed"
         /\ o.verdict.validation_results[i].result.decision = "human_verification"

\* C8: validation_orchestrator never lets an exception reach its caller; when
\* the aggregation raised, the verdict it returns has is_valid false, exactly
\* one error, query_complexity unknown and validation_strategy sequential.
C8_NeverPropagates ==
    o.pc = "done" =>
        /\ ~o.verdict.raised
        /\ _analyze_validation_results(o.validation_results).raised =>
               /\ ~o.verdict.is_valid
               /\ Len(o.verdict.errors) = 1
               /\ o.verdict.query_complexity = "unknown"
               /\ o.verdict.validation_strategy = "sequential"

\* the strategy that ran, read from the entries it left: the parallel batch
\* marks its entries parallel, the sequential strategy starts with the schema
\* check and the minimal one with the injection check
StrategyThatRan(validation_results) ==
    IF validation_results = <<>> THEN "none"
    ELSE IF validation_results[1].parallel THEN "parallel"
    ELSE IF validation_results[1].name = "schema_validation" THEN "sequential"
    ELSE "minimal"

\* C17: a score of 6 or more gives high and parallel, a score from 3 to 5
\* medium and sequential, a score below 3 low and minimal, and the strategy
\* validation_orchestrator runs is the one so chosen
C17_ThresholdsPairTierAndStrategy ==
    o.pc = "done" =>
        /\ <<o.complexity, o.strategy>> =
               (IF o.complexity_score >= 6 THEN <<"high", "parallel">>
                ELSE IF o.complexity_score >= 3 THEN <<"medium", "sequential">>
                ELSE <<"low", "minimal">>)
        /\ o.complexity_score = ComplexityScore(o.user_query, o.sql)
        /\ StrategyThatRan(o.validation_results) = o.strategy

\* a run on a score of exactly 6
C17_Witness ==
    /\ o.pc = "done"
    /\ o.complexity_score = 6
    /\ o.complexity = "high"
    /\ StrategyThatRan(o.validation_results) = "parallel"

(***************************************************************************)
(* Specification SpecComplexity: _analyze_query_complexity on a statement  *)
(* and on the statement with a JOIN or a UNION added, or grown past 50     *)
(* words.  o holds the statement, the edit and the analysis before and     *)
(* after it.                                                               *)
(***************************************************************************)
MaxEdits == 2

\* the statements edited: plain, with a JOIN and a subquery in parentheses,
\* with a sort, and of 20 and of 50 words
ComplexitySqls ==
    {<<"select", " ", "t">>,
     <<"select", " ", "t", " ", "join", " ", "t", " ", "where", " ", "t", " ", "in", " ",
       "(", "select", " ", "t", ")">>,
     <<"select", " ", "t", " ", "order", " ", "by", " ", "t">>,
     <<"select", " ", "t", " ">> \o Words(18),
     <<"select", " ", "t", " ">> \o Words(48)}

\* whitespace between two clauses
ClauseBreaks == {" ", "\n"}

\* the words a statement grows by
GrowBy == {1, 31}

\* s with clause put in after position p
InsertAfter(s, p, clause) == SubSeq(s, 1, p) \o clause \o SubSeq(s, p + 1, Len(s))

\* the positions a clause can follow: a table reference
TablePositions(s) == {p \in DOMAIN s : s[p] = "t"}

StrategyRank(strategy) ==
    CASE strategy = "minimal" -> 1
      [] strategy = "sequential" -> 2
      [] strategy = "parallel" -> 3

ComplexityInit ==
    /\ o \in [pc : {"start"}, user_query : OrchQueries, sql : ComplexitySqls, edit : {"none"},
              edits : {0},
              before : {_analyze_query_complexity(<<>>, <<>>)},
              after : {_analyze_query_complexity(<<>>, <<>>)}]
    /\ g = Idle
    /\ h = Idle
    /\ store = <<>>
    /\ user_type = "user"
    /\ turn = Idle
    /\ nturns = 0

\* the statement becomes new_sql; both are analysed
Edit(edit, new_sql) ==
    /\ o.edits < MaxEdits
    /\ o' = [o EXCEPT !.pc = "edited", !.sql = new_sql, !.edit = edit, !.edits = @ + 1,
                      !.before = _analyze_query_complexity(o.user_query, o.sql),
                      !.after = _analyze_query_complexity(o.user_query, new_sql)]
    /\ UNCHANGED <<g, h, store, user_type, turn, nturns>>

AddJoin ==
    \E p \in TablePositions(o.sql), ws \in ClauseBreaks :
        Edit("join", InsertAfter(o.sql, p, <<ws, "join", " ", "t">>))

AddUnion ==
    \E p \in TablePositions(o.sql), ws \in ClauseBreaks :
        Edit("union", InsertAfter(o.sql, p, <<ws, "union", " ", "select", " ", "t">>))

Grow ==
    \E n \in GrowBy, ws \in ClauseBreaks :
        /\ WordCount(o.sql) <= 50
        /\ WordCount(o.sql) + n > 50
        /\ Edit("grow", o.sql \o <<ws>> \o Words(n))

ComplexityNext ==
    \/ AddJoin
    \/ AddUnion
    \/ Grow

SpecComplexity == ComplexityInit /\ [][ComplexityNext]_vars

\* C18: adding a JOIN, adding a UNION or growing the statement past 50 words
\* never decreases the score of _analyze_query_complexity and never moves the
\* strategy to a weaker one in the order minimal, sequential, parallel
C18_EditsNeverLowerComplexity ==
    o.pc = "edited" =>
        /\ o.after.complexity_score >= o.before.complexity_score
        /\ StrategyRank(o.after.strategy) >= StrategyRank(o.before.strategy)

\* the JOIN keywords of a statement
JoinKeywords(sql_lower) == {j \in DOMAIN sql_lower : sql_lower[j] = "join"}

\* the sum of the increments as stated: 2 for each JOIN keyword, and the
\* other increments as _analyze_query_complexity adds them
StatedScore(user_query, generated_sql) ==
    LET sql_lower == Lower(generated_sql)
        sql_words == WordCount(generated_sql)
        user_words == WordCount(user_query)
    IN    2 * Cardinality(JoinKeywords(sql_lower))
        + (IF SubqueryPattern(sql_lower) THEN 2 ELSE 0)
        + (IF Contains(sql_lower, "union") \/ Contains(sql_lower, "intersect") THEN 3 ELSE 0)
        + (IF ContainsPhrase(sql_lower, <<"group", " ", "by">>) \/ Contains(sql_lower, "having")
           THEN 1 ELSE 0)
        + (IF ContainsPhrase(sql_lower, <<"order", " ", "by">>) THEN 1 ELSE 0)
        + (IF sql_words > 50 THEN 2 ELSE IF sql_words > 20 THEN 1 ELSE 0)
        + (IF user_words > 20 THEN 1 ELSE 0)
        + (IF StartsWith(sql_lower, "update") \/ StartsWith(sql_lower, "delete") THEN 2
           ELSE IF StartsWith(sql_lower, "insert") THEN 1 ELSE 0)

\* C39: the complexity score is the sum of the fixed increments: 2 for each
\* JOIN keyword present, 2 for a subquery, 3 for UNION or INTERSECT, 1 for
\* GROUP BY or HAVING, 1 for ORDER BY, 2 for more than 50 words of SQL or
\* else 1 for more than 20, 1 for a request of more than 20 words, 2 for a
\* leading UPDATE or DELETE or else 1 for a leading INSERT
C39_ScoreIsSumOfIncrements ==
    o.pc = "edited" => o.after.complexity_score = StatedScore(o.user_query, o.sql)

(***************************************************************************)
(* The conversation: messages, history and the pending decision            *)
(***************************************************************************)
MaxTurns == 2

\* A message content is a string in the code.  Here it is either plain text
\* (a token sequence, which json.loads rejects) or the JSON text of a dict.
TextContent(text) == [json |-> FALSE, text |-> text, value |-> EmptyDict]

\* json.dumps(payload, default=str): the JSON text of the dict; as a text it
\* is no reply of the yes/no vocabulary
json_dumps(payload) == [json |-> TRUE, text |-> <<"{}">>, value |-> payload]

\* json.loads(content), {} when it raises
json_loads(content) == IF content.json THEN content.value ELSE EmptyDict

\* not msg.content
IsEmptyContent(content) == ~content.json /\ content.text = <<>>

\* One entry of the history.  origin tells who wrote the entry: the client in
\* a request, or ConversationCommand itself; the code does not read it.
HistoryEntry(role, content, origin) ==
    [role |-> role, content |-> content, origin |-> origin]

\* a command that keeps the request's messages in place of the stored ones
AppendIncomingReplacing(history, incoming_messages) ==
    LET kept == SelectSeq(incoming_messages,
                          LAMBDA msg : msg.role # "" /\ ~IsEmptyContent(msg.content))
    IN  [i \in DOMAIN kept |-> HistoryEntry(kept[i].role, kept[i].content, "client")]

\* lines 64-71: the incoming messages with a role and a content are appended
RECURSIVE AppendIncoming(_, _)
AppendIncoming(history, incoming_messages) ==
    IF incoming_messages = <<>> THEN history
    ELSE LET msg == Head(incoming_messages)
         IN  IF msg.role = "" \/ IsEmptyContent(msg.content)
             THEN AppendIncoming(history, Tail(incoming_messages))
             ELSE AppendIncoming(
                      Append(history, HistoryEntry(msg.role, msg.content, "client")),
                      Tail(incoming_messages))

\* line 81: the history is handed to LLMSession.trim_message_history, whose
\* module (app/services/llm/session.py) is not among the sources; what it
\* returns (messages) is not read again.  The history after the call: it is
\* left as it was, the session's sequence of messages being append-only
trim_message_history(history) == history

\* the index of the last message of the role with a content, 0 if none
LastIndexOf(history, role) ==
    LET idx == {i \in DOMAIN history :
                    history[i].role = role /\ ~IsEmptyContent(history[i].content)}
    IN  IF idx = {} THEN 0 ELSE CHOOSE i \in idx : \A j \in idx : j <= i

_latest_user_message(history) ==
    LET i == LastIndexOf(history, "user")
    IN  IF i = 0 THEN <<>> ELSE history[i].content.text

_get_previous_assistant_message(history) ==
    LET i == LastIndexOf(history, "assistant")
    IN  IF i = 0 THEN EmptyDict ELSE json_loads(history[i].content)

\* the 14 replies of line 109
YesNoVocabulary == AffirmativeSet \cup NegativeSet

(***************************************************************************)
(* ConversationCommand._process_sql_execution_response                     *)
(***************************************************************************)
UnknownResponse(sql_query, decision, feedback, user_response) ==
    Dict("unknown_response", <<>>, sql_query, decision, feedback, "none", user_response)

_process_sql_execution_response(execution_result) ==
    IF execution_result.type = "regeneration_request"
    THEN Dict("regeneration_request", <<>>, execution_result.sql, "regeneration_request",
              execution_result.feedback, "none", execution_result.user_response)
    ELSE LET sql_query == Strip(execution_result.query)
             decision == execution_result.decision
             feedback == execution_result.feedback
             rows == execution_result.rows
             user_response == execution_result.user_response
         IN  IF decision = "executed_after_verification" /\ rows # "none"
             THEN Dict("", <<>>, sql_query, decision, feedback, rows, user_response)
             ELSE IF decision = "cancelled_by_user"
             THEN Dict("", <<>>, sql_query, decision, feedback, "none", user_response)
             ELSE IF decision \in {"reject", "error", "execution_failed"}
             THEN Dict("", <<>>, sql_query, decision, feedback, rows, user_response)
             ELSE IF decision = "human_verification"
             THEN Dict("human_verification", <<>>, sql_query, "", feedback, "none",
                       user_response)
             ELSE UnknownResponse(sql_query, decision, feedback, user_response)

(***************************************************************************)
(* ConversationCommand._process_text_to_sql_response                       *)
(***************************************************************************)
_process_text_to_sql_response(gen) ==
    LET sql_query == Strip(gen.query)
        decision == gen.decision
        feedback == gen.feedback
        rows == gen.rows
    IN  IF gen.type = "human_verification"
        THEN [Dict("human_verification", <<>>, gen.sql, "", gen.feedback, "none", <<>>)
                 EXCEPT !.requires_clarification = gen.requires_clarification,
                        !.original_query = gen.original_query]
        ELSE IF decision = "accept" /\ rows # "none"
        THEN Dict("", <<>>, sql_query, decision, feedback, rows, <<>>)
        ELSE IF decision \in {"reject", "error", "execution_failed"}
        THEN Dict("", <<>>, sql_query, decision, feedback, rows, <<>>)
        ELSE IF gen.type = "regeneration_request"
        THEN [Dict("regeneration_request", <<>>, gen.sql, "regeneration_request",
                   gen.feedback, "none", <<>>)
                 EXCEPT !.requires_clarification = gen.requires_clarification,
                        !.original_query = gen.original_query]
        ELSE IF decision \in {"human_verification", "executed_after_verification",
                              "cancelled_by_user"}
        THEN Dict("", <<>>, sql_query, decision, feedback, rows, <<>>)
        ELSE UnknownResponse(sql_query, decision, feedback, <<>>)

\* the dict the except branches of lines 200-208 and 259-267 build
GenerationError == Dict("error", <<>>, <<>>, "error", "exception_occurred", "none", <<>>)

(***************************************************************************)
(* text_to_sql.  What the oracle and the database answer is their choice,  *)
(* so text_to_sql is the set of the results it can have; a result is the   *)
(* dict it returns (out), or raised, with the statements it executed, the  *)
(* SQL it handed to validation_orchestrator (orch_sql), the calls of the   *)
(* generating oracle (attempts) and what _generate_initial_sql returned    *)
(* (generated).                                                            *)
(***************************************************************************)
\* what the oracle answers to the generation prompt: a text, or nothing (the
\* call raises)
GeneratorReplies ==
    [raised : {FALSE},
     content : {<<>>,
                <<"VAGUE_QUERY">>,
                <<" ", "select", " ", "t">>,
                <<"update", " ", "t", " ", "join", " ", "t", " ", "union", " ", "t">>}]
        \cup [raised : {TRUE}, content : {<<>>}]

_extract_sql_from_text(text) ==
    IF text = <<>> THEN <<>>
    ELSE IF \E i \in DOMAIN text : text[i] = "VAGUE_QUERY" THEN <<"VAGUE_QUERY">>
    ELSE Strip(text)

\* _generate_initial_sql: a second attempt when the first one says VAGUE_QUERY
\* (attempts: the calls of the oracle it made)
_generate_initial_sql(first, second) ==
    IF first.raised THEN [raised |-> TRUE, sql_text |-> <<>>, attempts |-> 1]
    ELSE IF _extract_sql_from_text(first.content) # <<"VAGUE_QUERY">>
    THEN [raised |-> FALSE, sql_text |-> _extract_sql_from_text(first.content), attempts |-> 1]
    ELSE IF second.raised THEN [raised |-> TRUE, sql_text |-> <<>>, attempts |-> 2]
    ELSE [raised |-> FALSE, sql_text |-> _extract_sql_from_text(second.content),
          attempts |-> 2]

\* what _generate_initial_sql can return
InitialResults ==
    {_generate_initial_sql(first, second) : first \in GeneratorReplies, second \in GeneratorReplies}

\* text_to_sql_output_to_dict(TextToSQLOutput(query, decision, feedback, rows))
TextToSQLOutput(query, decision, feedback, rows) ==
    Dict("", query, <<>>, decision, feedback, rows, <<>>)

\* human_query_clarification: a clarification Decision that carries the
\* original request, requires_clarification true and no SQL
human_query_clarification(user_query) ==
    [Dict("human_verification", <<>>, <<>>, "", "clarification_questions", "none", <<>>)
        EXCEPT !.requires_clarification = TRUE, !.original_query = user_query]

\* a result of text_to_sql
Returned(out, executed, orch_sql) ==
    [raised |-> FALSE, out |-> out, executed |-> executed, orch_sql |-> orch_sql,
     attempts |-> 0, generated |-> <<>>, analysis |-> NoAnalysis]

\* the guardrail decision _process_validated_sql reads in the verdict
GuardrailDecisionOf(verdict) ==
    LET idx == {i \in DOMAIN verdict.validation_results :
                    verdict.validation_results[i].name = "guardrail"}
    IN  IF idx = {} THEN "reject"
        ELSE IF verdict.validation_results[CHOOSE i \in idx : TRUE].result.none THEN "reject"
        ELSE verdict.validation_results[CHOOSE i \in idx : TRUE].result.decision

\* _process_validated_sql, decision accept: the statement is executed; when
\* the execution raises, the except branch of line 322 answers.  analysis is
\* what sql_execution_analyzer says of the error, for whoever asks it.
ExecuteAccepted(sql_text, env) ==
    IF env.db = "ok"
    THEN Returned(TextToSQLOutput(sql_text, "accept", "guardrail_feedback", "rows"),
                  <<Execution(sql_text, env)>>, sql_text)
    ELSE [Returned(TextToSQLOutput(sql_text, "reject", "execution_failed", "none"),
                   <<Execution(sql_text, env)>>, sql_text)
             EXCEPT !.analysis = env.analysis]

\* a text_to_sql that executes what the guardrail wants verified
_process_validated_sql_eager(sql_text, natural_language_query, verdict) ==
    IF ~verdict.is_valid
    THEN {Returned(TextToSQLOutput(sql_text, "reject", "validation_failed", "none"), <<>>,
                   sql_text)}
    ELSE IF GuardrailDecisionOf(verdict) \in {"accept", "human_verification"}
    THEN {ExecuteAccepted(sql_text, env) : env \in DbOutcomes}
    ELSE {Returned(TextToSQLOutput(sql_text, "reject", "guardrail_feedback", "none"), <<>>,
                   sql_text)}

_process_validated_sql(sql_text, natural_language_query, verdict) ==
    IF ~verdict.is_valid
    THEN {Returned(TextToSQLOutput(sql_text, "reject", "validation_failed", "none"), <<>>,
                   sql_text)}
    ELSE IF GuardrailDecisionOf(verdict) = "accept"
    THEN {ExecuteAccepted(sql_text, env) : env \in DbOutcomes}
    ELSE IF GuardrailDecisionOf(verdict) = "human_verification"
    THEN {Returned([Dict("human_verification", <<>>, sql_text, "", "guardrail_feedback",
                         "none", <<>>)
                       EXCEPT !.original_query = natural_language_query],
                   <<>>, sql_text)}
    ELSE {Returned(TextToSQLOutput(sql_text, "reject", "guardrail_feedback", "none"), <<>>,
                   sql_text)}

\* text_to_sql from line 130 on, given the verdict.  An invalid verdict leads
\* to a clarification when one of its errors contains "vague" or
\* "clarification", which is up to the texts of the oracle.
AfterOrchestration(sql_text, natural_language_query, verdict) ==
    IF verdict.raised
    THEN {[raised |-> TRUE, out |-> EmptyDict, executed |-> <<>>, orch_sql |-> sql_text,
           attempts |-> 0, generated |-> <<>>, analysis |-> NoAnalysis]}
    ELSE IF verdict.is_valid
    THEN _process_validated_sql(sql_text, natural_language_query, verdict)
    ELSE {Returned(TextToSQLOutput(sql_text, "reject", "validation_failed", "none"), <<>>,
                   sql_text)}
             \cup (IF verdict.errors = <<>> THEN {}
                   ELSE {Returned(human_query_clarification(natural_language_query), <<>>,
                                  sql_text)})

\* what _generate_initial_sql can return in a single call of text_to_sql:
\* also a statement of medium complexity
ToolInitialResults ==
    InitialResults
        \cup {[raised |-> FALSE, sql_text |-> <<"update", " ", "t", " ", "join", " ", "t">>,
               attempts |-> 1]}

\* the statements _generate_initial_sql can return
GeneratedSqls == {initial_result.sql_text : initial_result \in ToolInitialResults}

\* validation_orchestrator reads the request only to count its words
\* (validation_orchestrator.py:200): its verdicts on a statement the generator
\* returned, for a request of more than 20 words and for a shorter one
OrchestratorVerdicts ==
    [long \in BOOLEAN, sql_text \in GeneratedSqls, ut \in UserTypes |->
         validation_orchestrator(IF long THEN Words(21) ELSE Words(1), sql_text, ut)]

\* a text_to_sql that hands the sentinel to validation_orchestrator as if it
\* were SQL
AfterGenerationNoSentinel(natural_language_query, ut, initial_result) ==
    IF initial_result.raised
    THEN {[raised |-> TRUE, out |-> EmptyDict, executed |-> <<>>, orch_sql |-> <<>>,
           attempts |-> 0, generated |-> <<>>, analysis |-> NoAnalysis]}
    ELSE IF initial_result.sql_text = <<>>
    THEN {Returned(TextToSQLOutput(<<>>, "reject", "failed_to_generate", "none"), <<>>, <<>>)}
    ELSE UNION {AfterOrchestration(initial_result.sql_text, natural_language_query, verdict) :
                    verdict \in validation_orchestrator(natural_language_query,
                                                        initial_result.sql_text, ut)}

\* text_to_sql from line 69 on, given what _generate_initial_sql returned;
\* lines 91-92 set requires_clarification and sql in the clarification
AfterGeneration(natural_language_query, ut, initial_result) ==
    IF initial_result.raised
    THEN {[raised |-> TRUE, out |-> EmptyDict, executed |-> <<>>, orch_sql |-> <<>>,
           attempts |-> 0, generated |-> <<>>, analysis |-> NoAnalysis]}
    ELSE IF initial_result.sql_text = <<>>
    THEN {Returned(TextToSQLOutput(<<>>, "reject", "failed_to_generate", "none"), <<>>, <<>>)}
    ELSE IF initial_result.sql_text = <<"VAGUE_QUERY">>
    THEN {Returned([human_query_clarification(natural_language_query)
                       EXCEPT !.requires_clarification = TRUE, !.sql = <<>>],
                   <<>>, <<>>)}
    ELSE UNION {AfterOrchestration(initial_result.sql_text, natural_language_query, verdict) :
                    verdict \in OrchestratorVerdicts[WordCount(natural_language_query) > 20,
                                                     initial_result.sql_text, ut]}

text_to_sql(natural_language_query, ut) ==
    IF natural_language_query = <<>>
    THEN {Returned(TextToSQLOutput(<<>>, "reject", "empty_query", "none"), <<>>, <<>>)}
    ELSE UNION {{[r EXCEPT !.attempts = initial_result.attempts,
                           !.generated = initial_result.sql_text] :
                     r \in AfterGeneration(natural_language_query, ut, initial_result)} :
                    initial_result \in InitialResults}

(***************************************************************************)
(* Specification SpecTextToSql: one call of text_to_sql.  o holds the      *)
(* request, what the generator returned, the verdict of                    *)
(* validation_orchestrator when it was called, and what the call returned  *)
(* and executed.                                                           *)
(***************************************************************************)
ToolQueries == {<<>>, <<"show">>, Words(21)}

\* line 95 is reached: the generator returned a statement
ReachesOrchestrator(initial_result) ==
    /\ ~initial_result.raised
    /\ initial_result.sql_text \notin {<<>>, <<"VAGUE_QUERY">>}

TextToSqlInit ==
    /\ o \in [pc : {"start"}, user_query : ToolQueries, user_type : UserTypes,
              generated : {<<>>}, called : {FALSE}, strategy : {""},
              validation_results : {<<>>}, verdict : {RaisedVerdict},
              raised : {FALSE}, out : {EmptyDict}, executed : {<<>>}, orch_sql : {<<>>}]
    /\ g = Idle
    /\ h = Idle
    /\ store = <<>>
    /\ user_type = "user"
    /\ turn = Idle
    /\ nturns = 0

\* the call returned (or raised) r
ToolReturn(r, generated, called, strategy, validation_results, verdict) ==
    o' = [o EXCEPT !.pc = "returned", !.generated = generated, !.called = called,
                   !.strategy = strategy, !.validation_results = validation_results,
                   !.verdict = verdict, !.raised = r.raised, !.out = r.out,
                   !.executed = r.executed, !.orch_sql = r.orch_sql]

TextToSqlCall ==
    /\ o.pc = "start"
    /\ \/ \E r \in {x \in text_to_sql(o.user_query, o.user_type) : x.orch_sql = <<>>} :
            ToolReturn(r, r.generated, FALSE, "", <<>>, RaisedVerdict)
       \/ /\ o.user_query # <<>>
          /\ \E initial_result \in {x \in ToolInitialResults : ReachesOrchestrator(x)} :
               \E complexity_analysis \in
                      {_analyze_query_complexity(o.user_query, initial_result.sql_text)} :
                 \E validation_results \in
                        StrategyResults(complexity_analysis.strategy,
                                        initial_result.sql_text, o.user_type) :
                   \E verdict \in {OrchestratorVerdict(complexity_analysis,
                                                       validation_results)} :
                     \E r \in AfterOrchestration(initial_result.sql_text, o.user_query,
                                                 verdict) :
                        ToolReturn(r, initial_result.sql_text, TRUE,
                                   complexity_analysis.strategy, validation_results, verdict)
    /\ UNCHANGED <<g, h, store, user_type, turn, nturns>>

TextToSqlNext == TextToSqlCall

SpecTextToSql == TextToSqlInit /\ [][TextToSqlNext]_vars

\* the verdict has a guardrail step that completed with this decision
GuardrailCompletedWith(verdict, decision) ==
    \E i \in DOMAIN verdict.validation_results :
        /\ verdict.validation_results[i].name = "guardrail"
        /\ verdict.validation_results[i].status = "completed"
        /\ ~verdict.validation_results[i].result.none
        /\ verdict.validation_results[i].result.decision = decision

\* C22: text_to_sql executes a statement only if validation_orchestrator
\* returned is_valid true for that very statement and the guardrail step of
\* the verdict completed with decision accept; otherwise it executes nothing
C22_ExecutesOnlyValidAccepted ==
    (o.pc = "returned" /\ o.executed # <<>>) =>
        /\ o.called
        /\ ~o.verdict.raised
        /\ o.verdict.is_valid
        /\ GuardrailCompletedWith(o.verdict, "accept")
        /\ Len(o.executed) = 1
        /\ o.executed[1].sql = o.orch_sql
        /\ o.orch_sql = o.generated

\* a statement executed after a valid verdict with an accepting guardrail
C22_Witness ==
    /\ o.pc = "returned"
    /\ o.executed # <<>>
    /\ o.executed[1].ok
    /\ o.verdict.is_valid
    /\ GuardrailCompletedWith(o.verdict, "accept")
    /\ o.out.decision = "accept"

\* the strategy that ran recorded an Injection Detector answer is_injection true
InjectionFlagged ==
    /\ o.pc = "returned"
    /\ o.called
    /\ \E i \in DOMAIN o.validation_results :
         /\ o.validation_results[i].name = "injection_detection"
         /\ o.validation_results[i].status = "completed"
         /\ o.validation_results[i].result.is_injection

\* C25: under every strategy, a statement for which sql_injection_detector
\* returned is_injection true gets an invalid verdict, and text_to_sql neither
\* executes it nor returns it as a human_verification awaiting confirmation
C25_InjectionIsInvalidAndInert ==
    InjectionFlagged =>
        /\ ~o.verdict.raised
        /\ ~o.verdict.is_valid
        /\ o.executed = <<>>
        /\ ~(o.out.type = "human_verification" /\ o.out.sql # <<>>)

\* the oracle call inside sql_injection_detector failed in this call
DetectorOracleFailed ==
    /\ o.pc = "returned"
    /\ o.called
    /\ \E i \in DOMAIN o.validation_results :
         /\ o.validation_results[i].name = "injection_detection"
         /\ o.validation_results[i].status = "completed"
         /\ o.validation_results[i].result.reason = "LLM analysis failed - defaulting to safe"

\* C31: when the oracle call inside the Injection Detector fails, the
\* injection_detection step is recorded with status failed and the verdict is
\* invalid, so the SQL is not executed
C31_FailedDetectorInvalidates ==
    (o.pc = "returned" /\ o.called) =>
        /\ ~DetectorOracleFailed
        /\ \A i \in DOMAIN o.validation_results :
               (/\ o.validation_results[i].name = "injection_detection"
                /\ o.validation_results[i].status = "failed")
                   => ~o.verdict.is_valid /\ o.executed = <<>>

(***************************************************************************)
(* ConversationCommand.execute, one session                                *)
(***************************************************************************)
\* the messages a client puts in a request (role and content are its choice)
UserTexts == {<<"yes">>, <<"no">>, <<"maybe">>}

ClientVerification ==
    Dict("human_verification", <<>>, <<" ", "DROP">>, "", "", "none", <<>>)

ClientClarification ==
    [Dict("human_verification", <<>>, <<>>, "", "", "none", <<>>)
        EXCEPT !.requires_clarification = TRUE, !.original_query = <<"show">>]

ClientMessage(role, content) == [role |-> role, content |-> content]

\* a request carries the user's message (one without content is possible),
\* after an assistant message of the client's making or not; or it carries
\* no message at all, or an assistant message only
Requests ==
    {<<ClientMessage("user", TextContent(t))>> : t \in UserTexts \cup {<<>>}}
        \cup {<<ClientMessage("assistant", json_dumps(d)), ClientMessage("user", TextContent(t))>> :
                  d \in {ClientVerification, ClientClarification}, t \in UserTexts}
        \cup {<<>>, <<ClientMessage("assistant", json_dumps(ClientVerification))>>}

\* a turn in which text_to_sql returned nothing: it was not called, or the
\* call raised
NoCall == [attempts |-> 0, generated |-> <<>>, out |-> EmptyDict, analysis |-> NoAnalysis]

\* no turn has ended yet
NoTurn ==
    [path |-> "", prev_assistant |-> EmptyDict, pending_origin |-> "none",
     own_payload |-> EmptyDict, own_orch_sql |-> <<>>, latest_user_msg |-> <<>>,
     payload |-> EmptyDict, executed |-> <<>>, orch_sql |-> <<>>, attempts |-> 0,
     generated |-> <<>>, tool_out |-> EmptyDict, analysis |-> NoAnalysis,
     appended |-> 0, new_user |-> FALSE, reply_after |-> FALSE,
     pending_at |-> 0, confirmed_at |-> <<>>, request |-> <<>>]

\* the index of the last message ConversationCommand appended itself, 0 if none
OwnLastIndex(history) ==
    LET idx == {i \in DOMAIN history : history[i].origin = "server"}
    IN  IF idx = {} THEN 0 ELSE CHOOSE i \in idx : \A j \in idx : j <= i

\* its payload
OwnLastPayload(history) ==
    IF OwnLastIndex(history) = 0 THEN EmptyDict
    ELSE json_loads(history[OwnLastIndex(history)].content)

\* line 105 and line 109
IsVerificationReply(prev_assistant, latest_user_msg) ==
    /\ prev_assistant.type = "human_verification"
    /\ Strip(Lower(latest_user_msg)) \in YesNoVocabulary

\* lines 113 and 171
IsClarificationPending(prev_assistant) ==
    /\ prev_assistant.type = "human_verification"
    /\ prev_assistant.requires_clarification
    /\ prev_assistant.sql = <<>>

\* who wrote the message the pending decision is derived from
PendingOrigin(history) ==
    IF LastIndexOf(history, "assistant") = 0 THEN "none"
    ELSE history[LastIndexOf(history, "assistant")].origin

\* a command that returns the payload without appending it to the history
ReturnUnrecorded(req, history, path, prev_assistant, latest_user_msg, payload, executed, orch_sql, call) ==
    /\ store' = history
    /\ turn' = [turn EXCEPT !.path = path, !.prev_assistant = prev_assistant,
                            !.latest_user_msg = latest_user_msg, !.payload = payload,
                            !.executed = executed,
                            !.own_payload = OwnLastPayload(store),
                            !.new_user = \E i \in (Len(store) + 1)..Len(history) :
                                             history[i].role = "user",
                            !.confirmed_at =
                                IF path = "confirmation" /\ executed # <<>>
                                THEN Append(@, LastIndexOf(history, "assistant"))
                                ELSE @]
    /\ nturns' = nturns + 1
    /\ UNCHANGED <<g, h, o, user_type>>

\* The payload is appended, the history stored and the payload returned.
\* turn records the turn that ended: the branch taken, the pending decision
\* and the reply it was derived from, the payload, the statements executed
\* and the SQL handed to validation_orchestrator; and of the turn before it
\* (the one that appended the last message of ConversationCommand's own), the
\* payload and the SQL handed to validation_orchestrator; how many messages
\* of the request were appended, whether one of them is the user's, and
\* whether the reply stands after the pending decision in the history, the
\* place of the pending decision in the history, and the places of the
\* decisions whose SQL a confirmation has executed so far, and the request
\* of the turn.  Of the call of text_to_sql in the turn (call) it records the calls of the generating
\* oracle, what _generate_initial_sql returned and the dict returned.
Return(req, history, path, prev_assistant, latest_user_msg, payload, executed, orch_sql, call) ==
    /\ store' = Append(history, HistoryEntry("assistant", json_dumps(payload), "server"))
    /\ turn' = [path |-> path,
                prev_assistant |-> prev_assistant,
                pending_origin |-> PendingOrigin(history),
                own_payload |-> OwnLastPayload(store),
                own_orch_sql |-> turn.orch_sql,
                latest_user_msg |-> latest_user_msg,
                payload |-> payload,
                executed |-> executed,
                orch_sql |-> orch_sql,
                attempts |-> call.attempts,
                generated |-> call.generated,
                tool_out |-> call.out,
                analysis |-> call.analysis,
                appended |-> Len(history) - Len(store),
                new_user |-> \E i \in (Len(store) + 1)..Len(history) :
                                history[i].role = "user",
                reply_after |-> LastIndexOf(history, "user")
                                    > LastIndexOf(history, "assistant"),
                pending_at |-> LastIndexOf(history, "assistant"),
                confirmed_at |->
                    IF path = "confirmation" /\ executed # <<>>
                    THEN Append(turn.confirmed_at, LastIndexOf(history, "assistant"))
                    ELSE turn.confirmed_at,
                request |-> req]
    /\ nturns' = nturns + 1
    /\ UNCHANGED <<g, h, o, user_type>>

\* a re-prompt that forgets the original request
ClarificationNeededBare(prev_assistant) ==
    Dict("clarification_needed", <<>>, <<>>, "", "", "none", <<>>)

\* lines 116-122
ClarificationNeeded(prev_assistant) ==
    [Dict("clarification_needed", <<>>, <<>>, "", "", "none", <<>>)
        EXCEPT !.original_query = prev_assistant.original_query]

\* line 126: the statement handed to sql_execution_handler
HandlerInputOf(prev_assistant) == prev_assistant.sql

\* lines 105-165: the reply to a pending human_verification
ConfirmationTurn ==
    /\ nturns < MaxTurns
    /\ \E req \in Requests :
         \E history \in {trim_message_history(AppendIncoming(store, req))} :
           \E prev_assistant \in {_get_previous_assistant_message(history)},
              latest_user_msg \in {_latest_user_message(history)} :
             /\ IsVerificationReply(prev_assistant, latest_user_msg)
             /\ IF IsClarificationPending(prev_assistant)
                THEN Return(req, history, "confirmation", prev_assistant, latest_user_msg,
                            ClarificationNeeded(prev_assistant), <<>>, <<>>, NoCall)
                ELSE IF prev_assistant.sql # <<>>
                THEN \E env \in DbOutcomes :
                       \E r \in {sql_execution_handler(HandlerInputOf(prev_assistant),
                                                       latest_user_msg, env)} :
                          Return(req, history, "confirmation", prev_assistant, latest_user_msg,
                                 _process_sql_execution_response(r.out), r.executed, <<>>, NoCall)
                ELSE Return(req, history, "confirmation", prev_assistant, latest_user_msg,
                            [Dict("error", <<>>, <<>>, "", "", "none", <<>>)
                                EXCEPT !.original_query = prev_assistant.original_query],
                            <<>>, <<>>, NoCall)

\* line 177
EnhancedQuery(original_query, user_clarification) ==
    original_query \o <<".", " ", "Additional", " ", "clarification", ":", " ">>
        \o user_clarification

\* lines 171-226: the answer to a clarification request; text_to_sql runs on
\* the original request and the answer
ClarificationTurn ==
    /\ nturns < MaxTurns
    /\ \E req \in Requests :
         \E history \in {trim_message_history(AppendIncoming(store, req))} :
           \E prev_assistant \in {_get_previous_assistant_message(history)},
              latest_user_msg \in {_latest_user_message(history)} :
             /\ ~IsVerificationReply(prev_assistant, latest_user_msg)
             /\ IsClarificationPending(prev_assistant)
             /\ \E r \in text_to_sql(EnhancedQuery(prev_assistant.original_query,
                                                   latest_user_msg),
                                     user_type) :
                  Return(req, history, "clarification", prev_assistant, latest_user_msg,
                         _process_text_to_sql_response(
                             IF r.raised THEN GenerationError ELSE r.out),
                         r.executed, r.orch_sql,
                         [attempts |-> r.attempts, generated |-> r.generated,
                          out |-> IF r.raised THEN EmptyDict ELSE r.out,
                          analysis |-> r.analysis])

\* lines 228-286: text_to_sql is called with the keywords regeneration_feedback
\* and failed_sql, which its signature (text_to_sql.py:35) does not have: the
\* call raises and the except branch of line 259 answers
GenerationTurn ==
    /\ nturns < MaxTurns
    /\ \E req \in Requests :
         \E history \in {trim_message_history(AppendIncoming(store, req))} :
           \E prev_assistant \in {_get_previous_assistant_message(history)},
              latest_user_msg \in {_latest_user_message(history)} :
             /\ ~IsVerificationReply(prev_assistant, latest_user_msg)
             /\ ~IsClarificationPending(prev_assistant)
             /\ Return(req, history, "generation", prev_assistant, latest_user_msg,
                       _process_text_to_sql_response(GenerationError), <<>>, <<>>, NoCall)

ConversationInit ==
    /\ store = <<>>
    /\ user_type \in UserTypes
    /\ turn = NoTurn
    /\ nturns = 0
    /\ o = Idle
    /\ g = Idle
    /\ h = Idle

ConversationNext ==
    \/ ConfirmationTurn
    \/ ClarificationTurn
    \/ GenerationTurn

SpecConversation == ConversationInit /\ [][ConversationNext]_vars

\* the reply of the turn that ended, as the code normalises it
NormalisedReply == Strip(Lower(turn.latest_user_msg))

\* the turn that ended answered a pending human_verification with SQL
VerificationPending ==
    /\ turn.path # ""
    /\ turn.prev_assistant.type = "human_verification"
    /\ turn.prev_assistant.sql # <<>>

\* C2: when a turn executes SQL in response to an affirmative reply, the
\* statement handed to the database is the sql of the pending
\* human_verification Decision, unmodified, and it is the statement that was
\* handed to validation_orchestrator in the turn before, when that Decision
\* was produced.
C2_ExecutedSqlIsPendingSql ==
    (turn.path = "confirmation" /\ turn.executed # <<>>) =>
        /\ NormalisedReply \in AffirmativeSet
        /\ turn.prev_assistant.type = "human_verification"
        /\ Len(turn.executed) = 1
        /\ turn.executed[1].sql = turn.prev_assistant.sql
        /\ turn.executed[1].sql = turn.own_orch_sql

\* C3: when the latest assistant payload is human_verification with
\* requires_clarification true and empty sql, a reply of the yes/no vocabulary
\* executes nothing in that turn, and the turn returns a re-prompt that
\* carries the original request.
C3_YesNoToClarificationReprompts ==
    (/\ turn.path # ""
     /\ IsClarificationPending(turn.prev_assistant)
     /\ NormalisedReply \in YesNoVocabulary)
        => /\ turn.executed = <<>>
           /\ turn.payload.type = "clarification_needed"
           /\ turn.payload.original_query = turn.prev_assistant.original_query

\* "yes" answered to a clarification request that ConversationCommand emitted
C3_Witness ==
    /\ turn.path = "confirmation"
    /\ IsClarificationPending(turn.prev_assistant)
    /\ turn.pending_origin = "server"
    /\ NormalisedReply \in AffirmativeSet
    /\ turn.prev_assistant.original_query # <<>>
    /\ turn.payload.type = "clarification_needed"

\* ConversationCommand emitted cancelled_by_user in an earlier turn and no
\* human_verification Decision since
CancelledAndNothingPendingSince ==
    \E i \in 1..(Len(store) - 1) :
        /\ store[i].origin = "server"
        /\ json_loads(store[i].content).decision = "cancelled_by_user"
        /\ \A j \in (i + 1)..(Len(store) - 1) :
               ~(/\ store[j].origin = "server"
                 /\ json_loads(store[j].content).type = "human_verification")

\* C4: a negative reply to a pending human_verification Decision with SQL
\* yields cancelled_by_user and executes nothing; and in every later turn an
\* affirmative reply executes nothing unless ConversationCommand has emitted
\* a new human_verification Decision in between.
C4_CancelledSqlIsNotResurrected ==
    /\ (VerificationPending /\ NormalisedReply \in NegativeSet) =>
           /\ turn.payload.decision = "cancelled_by_user"
           /\ turn.executed = <<>>
    /\ (/\ turn.path # ""
        /\ CancelledAndNothingPendingSince
        /\ NormalisedReply \in AffirmativeSet) => turn.executed = <<>>

\* C5: the pending decision a turn derives from the history is the payload of
\* the last message ConversationCommand appended itself (none if there is
\* none), whatever the client put in its requests.
C5_PendingIsOwnLastPayload ==
    turn.path # "" => turn.prev_assistant = turn.own_payload

\* C9: when a human_verification Decision with SQL, emitted by
\* ConversationCommand, is pending and the reply is neither affirmative nor
\* negative, the turn emits a human_verification Decision with the same SQL.
C9_AmbiguousReplyKeepsPending ==
    (/\ VerificationPending
     /\ turn.pending_origin = "server"
     /\ NormalisedReply \notin YesNoVocabulary)
        => /\ turn.payload.type = "human_verification"
           /\ turn.payload.sql = turn.prev_assistant.sql

(***************************************************************************)
(* Regeneration and the Decision taxonomy                                  *)
(***************************************************************************)
\* _generate_initial_sql asks the oracle at most twice
MaxGenerationAttempts == 2

\* the Decision values of the specification
Taxonomy ==
    {"accept", "reject", "human_verification", "executed_after_verification",
     "cancelled_by_user", "execution_failed", "regeneration_request", "clarification_needed"}

\* the Decision a payload carries: its decision key, or its type when it has
\* no decision key
PayloadDecision(payload) == IF payload.decision # "" THEN payload.decision ELSE payload.type

\* C12: a turn that answers a pending regeneration_request makes a bounded
\* number of generation attempts and ends with a Decision of the taxonomy.
C12_RegenerationEndsWithDecision ==
    (turn.path # "" /\ turn.prev_assistant.type = "regeneration_request") =>
        /\ turn.attempts <= MaxGenerationAttempts
        /\ PayloadDecision(turn.payload) \in Taxonomy

\* C13: the payload every turn returns carries a Decision of the taxonomy.
C13_PayloadCarriesDecision ==
    turn.path # "" => PayloadDecision(turn.payload) \in Taxonomy

\* C14: when _generate_initial_sql returns the sentinel VAGUE_QUERY,
\* text_to_sql returns a clarification (type human_verification with
\* requires_clarification true and empty sql, carrying the request), and in
\* that call validation_orchestrator is not called and nothing is executed
GeneratorSaidVague == turn.path = "clarification" /\ turn.generated = <<"VAGUE_QUERY">>

C14_VagueGoesStraightToClarification ==
    GeneratorSaidVague =>
        /\ turn.tool_out.type = "human_verification"
        /\ turn.tool_out.requires_clarification
        /\ turn.tool_out.sql = <<>>
        /\ turn.tool_out.original_query =
               EnhancedQuery(turn.prev_assistant.original_query, turn.latest_user_msg)
        /\ turn.orch_sql = <<>>
        /\ turn.executed = <<>>

C14_Witness ==
    /\ GeneratorSaidVague
    /\ turn.attempts = 2
    /\ turn.tool_out.requires_clarification
    /\ turn.orch_sql = <<>>
\* text_to_sql executed the statement itself in the turn, and the execution
\* raised
AutomaticExecutionRaised ==
    /\ turn.path = "clarification"
    /\ turn.executed # <<>>
    /\ ~turn.executed[1].ok

\* C19: when the verdict is valid, the guardrail accepts and the automatic
\* execution raises, text_to_sql answers by the analyzer's classification of
\* the error: a regeneration_request for sql_structure, a terminal Decision
\* without regeneration for valid_execution and unknown
C19_AutomaticFailureIsAnalysed ==
    AutomaticExecutionRaised =>
        IF turn.analysis.failure_type = "sql_structure"
        THEN turn.tool_out.type = "regeneration_request"
        ELSE /\ turn.tool_out.type # "regeneration_request"
             /\ turn.tool_out.decision \in {"reject", "execution_failed"}
\* the feedback texts built around str(e): "Execution failed: {str(e)}" of
\* text_to_sql.py:326 and "Exception occurred: {str(e)}" of conversation.py
CarriesRawError(feedback) == feedback \in {"execution_failed", "exception_occurred"}

\* the turn ended after an execution that raised
ExecutionFailedInTurn ==
    /\ turn.path # ""
    /\ turn.executed # <<>>
    /\ ~turn.executed[1].ok

\* C20: the feedback of a Decision returned after a failure never contains
\* the raw text of the database's or the oracle's error
C20_FeedbackHasNoRawError ==
    ExecutionFailedInTurn => ~CarriesRawError(turn.payload.feedback)
\* C23: a pending SQL is executed on confirmation only if the affirmative
\* reply stands in the history after the human_verification Decision it
\* answers, and only in a turn whose request appended a message of the user
C23_ExecutionAnswersNewerReply ==
    (turn.path = "confirmation" /\ turn.executed # <<>>) =>
        /\ NormalisedReply \in AffirmativeSet
        /\ turn.reply_after
        /\ turn.new_user

\* lines 183 and 231: fetch_context_and_schema searches the vector store (an
\* embedding of the request) and reads the catalog of the database
FetchedContext == turn.path \in {"clarification", "generation"}

\* the turn that ended had no request of the user's to work on: the history
\* holds no user message, or the request appended no message
NothingAsked ==
    /\ turn.path # ""
    /\ turn.latest_user_msg = <<>> \/ turn.appended = 0

\* C21: a request with an empty natural-language request or an empty message
\* list is answered with decision reject, and no oracle call and no database
\* call is made while handling it
C21_NothingAskedIsRejectedUntouched ==
    NothingAsked =>
        /\ turn.payload.decision = "reject"
        /\ turn.executed = <<>>
        /\ turn.attempts = 0
        /\ ~FetchedContext

\* the turn that ended answered a re-prompt of ConversationCommand's own with
\* a reply that is no yes/no: a clarification was pending, a yes/no-shaped
\* reply was answered by the re-prompt, and the substantive reply followed
SubstantiveReplyAfterReprompt ==
    /\ turn.path # ""
    /\ turn.own_payload.type = "clarification_needed"
    /\ turn.own_payload.original_query # <<>>
    /\ turn.pending_origin = "server"
    /\ turn.prev_assistant = turn.own_payload
    /\ turn.new_user
    /\ turn.latest_user_msg # <<>>
    /\ NormalisedReply \notin YesNoVocabulary

\* C32: while a clarification is pending the original request is not lost:
\* after yes/no-shaped replies, each answered by a re-prompt, the next
\* substantive reply is combined with the original request when SQL is
\* generated
C32_OriginalRequestSurvivesReprompt ==
    SubstantiveReplyAfterReprompt => turn.path = "clarification"

\* the turn that ended followed a regeneration_request Decision of
\* ConversationCommand's own
FollowsRegenerationRequest ==
    /\ turn.path # ""
    /\ turn.own_payload.type = "regeneration_request"
    /\ turn.prev_assistant = turn.own_payload
    /\ turn.prev_assistant.sql # <<>>

\* C33: on the turn that follows a regeneration_request Decision the
\* generator is invoked (with the failed SQL and the feedback of that
\* Decision) and the turn ends with the Decision that generation and
\* validation of the new candidate produced
C33_RegenerationInvokesGenerator ==
    FollowsRegenerationRequest =>
        /\ turn.attempts >= 1
        /\ turn.tool_out # EmptyDict
        /\ turn.payload = _process_text_to_sql_response(turn.tool_out)

\* the turn before the one that ended executed the SQL of a human_verification
\* Decision, and the turn that ended brought an affirmative reply
AffirmedAfterExecution ==
    /\ turn.path # ""
    /\ turn.own_payload.decision = "executed_after_verification"
    /\ turn.confirmed_at # <<>>
    /\ turn.new_user
    /\ NormalisedReply \in AffirmativeSet

NonEmptyMessages(request) ==
    SelectSeq(request, LAMBDA msg : msg.role # "" /\ ~IsEmptyContent(msg.content))

\* C35: the stored history is append-only: a call of execute that returns a
\* payload leaves every stored message in its place, appends the request's
\* non-empty messages in their order and after them exactly one assistant
\* message, which holds the payload returned
C35_HistoryAppendOnly ==
    [][LET kept == NonEmptyMessages(turn'.request)
       IN  /\ Len(store') = Len(store) + Len(kept) + 1
           /\ \A i \in DOMAIN store : store'[i] = store[i]
           /\ \A i \in DOMAIN kept :
                 /\ store'[Len(store) + i].role = kept[i].role
                 /\ store'[Len(store) + i].content = kept[i].content
           /\ store'[Len(store')].role = "assistant"
           /\ store'[Len(store')].content.json
           /\ json_loads(store'[Len(store')].content) = turn'.payload]_vars

\* a second call appended both messages of its request and its payload
\* after the messages of the first, of which one had no content
C35_Witness ==
    /\ nturns = 2
    /\ Len(NonEmptyMessages(turn.request)) = 2
    /\ Len(store) = 4
    /\ store[1].origin = "server"
    /\ store[Len(store)].origin = "server"
    /\ json_loads(store[Len(store)].content) = turn.payload

(***************************************************************************)
(* Specification SpecConcurrent: two requests of one session, each run by  *)
(* ConversationCommand.execute in a thread of its own.  _CONVERSATION_STORE *)
(* is a module-level dict without a lock (conversation.py:25), and         *)
(* .get(session_id, []) hands every thread the one list stored for the     *)
(* session, so store is that list.  turn.thread is each thread's position  *)
(* and locals, turn.executed the statements the database has executed.     *)
(***************************************************************************)
Threads == {"a", "b"}

ConcurrentReplies == {<<"yes">>, <<"ok">>, <<"maybe">>}

\* The history of a session in which a human_verification Decision with SQL
\* is pending: the clarification branch returned it in the turn before
PendingVerification ==
    [Dict("human_verification", <<>>, <<"select", " ", "t">>, "", "guardrail_feedback",
          "none", <<>>)
        EXCEPT !.original_query = EnhancedQuery(<<"show">>, <<"maybe">>)]

PendingHistory ==
    <<HistoryEntry("assistant", json_dumps(ClientClarification), "client"),
      HistoryEntry("user", TextContent(<<"maybe">>), "client"),
      HistoryEntry("assistant", json_dumps(PendingVerification), "server")>>

ConcurrentInit ==
    /\ store = PendingHistory
    /\ user_type \in UserTypes
    /\ turn \in [thread : [Threads -> [pc : {"start"}, reply : ConcurrentReplies,
                                       latest_user_msg : {<<>>},
                                       prev_assistant : {EmptyDict},
                                       payload : {EmptyDict}]],
                 executed : {<<>>}]
    /\ nturns = 0
    /\ o = Idle
    /\ g = Idle
    /\ h = Idle

\* lines 54-71: the thread gets the session's list and appends its message
AppendRequest(t) ==
    /\ turn.thread[t].pc = "start"
    /\ store' = AppendIncoming(store, <<ClientMessage("user", TextContent(turn.thread[t].reply))>>)
    /\ turn' = [turn EXCEPT !.thread[t].pc = "appended"]
    /\ UNCHANGED <<g, h, o, user_type, nturns>>

\* lines 84-85: it reads the latest user message and the pending decision
ReadPending(t) ==
    /\ turn.thread[t].pc = "appended"
    /\ turn' = [turn EXCEPT !.thread[t].pc = "read",
                            !.thread[t].latest_user_msg = _latest_user_message(store),
                            !.thread[t].prev_assistant = _get_previous_assistant_message(store)]
    /\ UNCHANGED <<g, h, o, store, user_type, nturns>>

\* the branch has computed its payload
Decided(t, payload, executed) ==
    /\ turn' = [turn EXCEPT !.thread[t].pc = "decided",
                            !.thread[t].payload = payload,
                            !.executed = turn.executed \o executed]
    /\ UNCHANGED <<g, h, o, store, user_type, nturns>>

\* lines 105-156, or 170-267 when the reply is no confirmation: line 170
\* reads the pending decision anew
Decide(t) ==
    /\ turn.thread[t].pc = "read"
    /\ LET prev_assistant == turn.thread[t].prev_assistant
           latest_user_msg == turn.thread[t].latest_user_msg
       IN  IF IsVerificationReply(prev_assistant, latest_user_msg)
           THEN IF IsClarificationPending(prev_assistant)
                THEN Decided(t, ClarificationNeeded(prev_assistant), <<>>)
                ELSE IF prev_assistant.sql # <<>>
                THEN \E env \in DbOutcomes :
                       \E r \in {sql_execution_handler(HandlerInputOf(prev_assistant),
                                                       latest_user_msg, env)} :
                          Decided(t, _process_sql_execution_response(r.out), r.executed)
                ELSE Decided(t, [Dict("error", <<>>, <<>>, "", "", "none", <<>>)
                                    EXCEPT !.original_query = prev_assistant.original_query],
                             <<>>)
           ELSE IF IsClarificationPending(_get_previous_assistant_message(store))
           THEN \E r \in text_to_sql(
                             EnhancedQuery(
                                 _get_previous_assistant_message(store).original_query,
                                 latest_user_msg),
                             user_type) :
                  Decided(t, _process_text_to_sql_response(
                                 IF r.raised THEN GenerationError ELSE r.out),
                          r.executed)
           ELSE Decided(t, _process_text_to_sql_response(GenerationError), <<>>)

\* lines 159-164 (and 220-225, 279-284): the payload is appended to the list
\* and the list stored
StorePayload(t) ==
    /\ turn.thread[t].pc = "decided"
    /\ store' = Append(store, HistoryEntry("assistant",
                                           json_dumps(turn.thread[t].payload), "server"))
    /\ turn' = [turn EXCEPT !.thread[t].pc = "returned"]
    /\ nturns' = nturns + 1
    /\ UNCHANGED <<g, h, o, user_type>>

ConcurrentNext ==
    \E t \in Threads :
        \/ AppendRequest(t)
        \/ ReadPending(t)
        \/ Decide(t)
        \/ StorePayload(t)

SpecConcurrent == ConcurrentInit /\ [][ConcurrentNext]_vars

\* both requests carry an affirmative reply and both have returned
BothAffirmedAndReturned ==
    \A t \in Threads :
        /\ turn.thread[t].pc = "returned"
        /\ Strip(Lower(turn.thread[t].reply)) \in AffirmativeSet

\* the messages a request appends: the user's and the payload returned
AppendedBy(t) ==
    {HistoryEntry("user", TextContent(turn.thread[t].reply), "client"),
     HistoryEntry("assistant", json_dumps(turn.thread[t].payload), "server")}

\* C24: when two requests with an affirmative reply are processed
\* concurrently while one human_verification Decision with SQL is pending,
\* the pending SQL is executed at most once and the stored history contains
\* the messages appended by both requests
C24_ConcurrentConfirmationsExecuteOnce ==
    BothAffirmedAndReturned =>
        /\ Len(turn.executed) <= 1
        /\ Len(store) = Len(PendingHistory) + 4
        /\ \A t \in Threads : \A m \in AppendedBy(t) :
              \E i \in DOMAIN store : store[i] = m

\* the run took the sequential strategy and the Schema Validator passed
SequentialSchemaPassed ==
    /\ o.pc = "done"
    /\ o.strategy = "sequential"
    /\ o.validation_results[1].name = "schema_validation"
    /\ o.validation_results[1].status = "completed"
    /\ o.validation_results[1].result.is_valid
    /\ Len(o.validation_results) >= 2
    /\ o.validation_results[2].name = "injection_detection"
    /\ o.validation_results[2].status = "completed"

\* C28: under the sequential strategy, when the Schema Validator passes and
\* the Injection Detector returns is_injection true the run stops: the
\* Semantic Query Validator and the Guardrail are not called and the verdict
\* is invalid; when both pass, the Semantic Query Validator and then the
\* Guardrail are run
C28_SequentialStopsOnInjection ==
    SequentialSchemaPassed =>
        IF o.validation_results[2].result.is_injection
        THEN /\ o.calls = <<"schema_validation", "injection_detection">>
             /\ ~o.verdict.raised
             /\ ~o.verdict.is_valid
        ELSE o.calls = <<"schema_validation", "injection_detection",
                         "query_validation", "guardrail">>

\* C29: under the minimal strategy only the Injection Detector and the
\* Guardrail are called, the Injection Detector first, and the Guardrail is
\* skipped exactly when the Injection Detector returned is_injection true
C29_MinimalRunsDetectorThenGuardrail ==
    (o.pc = "done" /\ o.strategy = "minimal") =>
        /\ o.calls \in {<<"injection_detection">>, <<"injection_detection", "guardrail">>}
        /\ o.calls = <<"injection_detection">>
               <=> /\ o.validation_results[1].status = "completed"
                   /\ o.validation_results[1].result.is_injection

\* a minimal run that the Injection Detector ended
C29_Witness ==
    /\ o.pc = "done"
    /\ o.strategy = "minimal"
    /\ o.calls = <<"injection_detection">>
    /\ o.validation_results[1].result.is_injection
    /\ ~o.verdict.is_valid

\* a step of the run ended with status failed
SomeStepFailed ==
    /\ o.pc = "done"
    /\ \E i \in DOMAIN o.validation_results : o.validation_results[i].status = "failed"

\* C30: a step that ends with status failed does not cancel the steps that
\* follow it: after a failed step the remaining steps of the strategy are
\* still run, under the sequential strategy too
C30_FailedStepCancelsNothing ==
    SomeStepFailed =>
        IF o.strategy = "minimal"
        THEN o.calls = <<"injection_detection", "guardrail">>
        ELSE o.calls = <<"schema_validation", "injection_detection",
                         "query_validation", "guardrail">>

(***************************************************************************)
(* Specification SpecParallel: _execute_parallel_validation step by step,  *)
(* then steps 3 and 4 of validation_orchestrator.  The three checks run in *)
(* the threads of the pool; the caller collects their futures in the order *)
(* of submission, each with a timeout; leaving the with block joins the    *)
(* pool (shutdown(wait=True)); then the guardrail runs.                    *)
(***************************************************************************)
ParallelChecks == <<"schema_validation", "injection_detection", "query_validation">>

\* the check has not ended yet
Running == [none |-> TRUE, raised |-> FALSE, running |-> TRUE]

ParallelInit ==
    /\ o \in {x \in [pc : {"collect"}, user_query : OrchQueries, sql : OrchSqls,
                     user_type : UserTypes, task : {[k \in 1..3 |-> Running]},
                     validation_results : {<<>>}, guardrail_calls : {0},
                     verdict : {RaisedVerdict}] :
                  _analyze_query_complexity(x.user_query, x.sql).strategy = "parallel"}
    /\ g = Idle
    /\ h = Idle
    /\ store = <<>>
    /\ user_type = "user"
    /\ turn = Idle
    /\ nturns = 0

\* a check ends in its thread: the validator returned or raised
CheckEnds ==
    /\ o.pc \in {"collect", "join"}
    /\ \E k \in 1..3 :
         /\ o.task[k] = Running
         /\ \E result \in TaskOutcomes(ParallelChecks[k], o.sql, o.user_type)
                              \cup {RaisedResult} :
              o' = [o EXCEPT !.task[k] = result]
    /\ UNCHANGED <<g, h, store, user_type, turn, nturns>>

\* the entry of the next check is recorded; after the third the loop is left
Record(entry) ==
    /\ o' = [o EXCEPT !.validation_results = Append(@, entry),
                      !.pc = IF Len(o.validation_results) = 2 THEN "join" ELSE "collect"]
    /\ UNCHANGED <<g, h, store, user_type, turn, nturns>>

\* lines 282-299: future.result returned the check's result or raised its
\* exception
Collect ==
    /\ o.pc = "collect"
    /\ \E k \in {Len(o.validation_results) + 1} :
         /\ o.task[k] # Running
         /\ Record(_execute_validation_task(ParallelChecks[k], o.task[k], TRUE))

\* lines 285 and 292-299: the check had not ended after 30 s, future.result
\* raised TimeoutError
CollectTimesOut ==
    /\ o.pc = "collect"
    /\ \E k \in {Len(o.validation_results) + 1} :
         /\ o.task[k] = Running
         /\ Record(_execute_validation_task(ParallelChecks[k], RaisedResult, TRUE))

\* line 275: the with block is left when every thread of the pool has ended
LeavePool ==
    /\ o.pc = "join"
    /\ \A k \in 1..3 : o.task[k] # Running
    /\ o' = [o EXCEPT !.pc = "guardrail"]
    /\ UNCHANGED <<g, h, store, user_type, turn, nturns>>

\* lines 302-306
RunGuardrail ==
    /\ o.pc = "guardrail"
    /\ \E entry \in Entries("guardrail", o.sql, o.user_type) :
         o' = [o EXCEPT !.validation_results = Append(@, entry),
                        !.guardrail_calls = @ + 1,
                        !.pc = "analyze"]
    /\ UNCHANGED <<g, h, store, user_type, turn, nturns>>

\* lines 94-127, or the except branch
ReturnVerdict ==
    /\ o.pc = "analyze"
    /\ \E complexity_analysis \in {_analyze_query_complexity(o.user_query, o.sql)} :
         o' = [o EXCEPT !.verdict = OrchestratorVerdict(complexity_analysis,
                                                        o.validation_results),
                        !.pc = "done"]
    /\ UNCHANGED <<g, h, store, user_type, turn, nturns>>

ParallelNext ==
    \/ CheckEnds
    \/ Collect
    \/ CollectTimesOut
    \/ LeavePool
    \/ RunGuardrail
    \/ ReturnVerdict

SpecParallel == ParallelInit /\ [][ParallelNext]_vars

\* the three checks have their entries, in the order of submission
ThreeRecorded ==
    /\ Len(o.validation_results) >= 3
    /\ \A k \in 1..3 :
         /\ o.validation_results[k].name = ParallelChecks[k]
         /\ o.validation_results[k].status \in {"completed", "failed"}
         /\ o.validation_results[k].parallel

\* C26: under the parallel strategy the guardrail is invoked exactly once,
\* only after each of the three concurrent checks has been recorded as
\* completed or failed; the verdict then contains exactly four steps, the
\* three concurrent ones marked parallel true and the guardrail parallel false
C26_GuardrailOnceAfterTheBatch ==
    /\ o.guardrail_calls <= 1
    /\ o.guardrail_calls = 1 => ThreeRecorded
    /\ o.pc = "done" =>
         /\ o.guardrail_calls = 1
         /\ ~o.verdict.raised
         /\ Len(o.verdict.validation_results) = 4
         /\ \A k \in 1..3 :
              /\ o.verdict.validation_results[k].name = ParallelChecks[k]
              /\ o.verdict.validation_results[k].parallel
         /\ o.verdict.validation_results[4].name = "guardrail"
         /\ ~o.verdict.validation_results[4].parallel

\* the batch has recorded its three entries and waits for a check that was
\* recorded as failed on its timeout and has not ended
BlockedOnTimedOutCheck ==
    /\ o.pc = "join"
    /\ \E k \in 1..3 :
         /\ o.task[k] = Running
         /\ o.validation_results[k].status = "failed"

\* C27: under the parallel strategy a check that raises or exceeds its
\* timeout is recorded as failed for that check only: the other checks get
\* the record of their own outcome, and the batch does not block on the
\* failing check
C27_FailureStaysWithItsCheck ==
    /\ \A k \in 1..3 :
         k <= Len(o.validation_results) =>
             /\ o.validation_results[k].name = ParallelChecks[k]
             /\ o.validation_results[k].status \in {"completed", "failed"}
             /\ o.validation_results[k].status = "completed" =>
                    o.validation_results[k].result = o.task[k]
    /\ o.pc # "collect" => ThreeRecorded
    /\ ~BlockedOnTimedOutCheck

\* C38: every verdict validation_orchestrator returns with is_valid false
\* has a non-empty errors list, so that the reject feedback text_to_sql
\* builds from it names at least one reason
C38_InvalidVerdictNamesAReason ==
    (o.pc = "done" /\ ~o.verdict.raised /\ ~o.verdict.is_valid) => o.verdict.errors # <<>>

(***************************************************************************)
(* Specification SpecSession: the session metadata store.  Sessions are    *)
(* created by CreateSessionCommand and ConversationCommand.execute reads   *)
(* the tier of the session it is called for before it calls text_to_sql,   *)
(* in the branch its history selects (here an input).  o holds the store   *)
(* and the last operation.                                                 *)
(***************************************************************************)
\* the identifiers uuid4 returns, and one only a client made up
UuidIds == {"u1", "u2"}

ClientIds == {"c1"}

\* what a client sends to create a session
SessionNames == {"", "a"}

RequestedUserTypes == {"", "user", "admin", "root"}

\* lines 19-25 of create_session.py: validate does not raise
CreateSessionValid(session_name, requested) ==
    /\ session_name # ""
    /\ requested # ""
    /\ requested \in {"user", "admin"}

\* lines 50-52: _SESSION_METADATA.get(session_id, {})
get_session_metadata(metadata, session_id) ==
    IF session_id \in DOMAIN metadata THEN metadata[session_id] ELSE <<>>

\* a lookup of the tier that does not read the metadata
MetadataUserTypeDefault(session_metadata) == "user"

\* conversation.py lines 189 and 237: session_metadata.get("user_type", "user")
MetadataUserType(session_metadata) ==
    IF "user_type" \in DOMAIN session_metadata THEN session_metadata.user_type ELSE "user"

\* no operation yet
NoOperation ==
    [op |-> "", session_id |-> "", user_type |-> "", raised |-> FALSE, guardrail |-> {}]

\* the results of the guardrail calls that returned, of one validation
GuardrailResults(validation_results) ==
    {validation_results[i].result :
         i \in {j \in DOMAIN validation_results :
                    /\ validation_results[j].name = "guardrail"
                    /\ validation_results[j].status = "completed"}}

SessionInit ==
    /\ o = [pc |-> "session", metadata |-> <<>>, last |-> NoOperation]
    /\ g = Idle
    /\ h = Idle
    /\ store = <<>>
    /\ user_type = "user"
    /\ turn = Idle
    /\ nturns = 0

\* CreateSessionCommand.execute, lines 28-47: validate raises, or the
\* metadata is stored under an identifier uuid4 has not returned before
CreateSession ==
    /\ o.pc = "session"
    /\ \E session_name \in SessionNames, requested \in RequestedUserTypes :
         IF ~CreateSessionValid(session_name, requested)
         THEN o' = [o EXCEPT !.last = [NoOperation EXCEPT !.op = "create", !.raised = TRUE]]
         ELSE \E session_id \in UuidIds \ DOMAIN o.metadata :
                o' = [o EXCEPT
                        !.metadata = [s \in DOMAIN o.metadata \cup {session_id} |->
                                         IF s = session_id
                                         THEN [session_name |-> session_name,
                                               user_type |-> requested]
                                         ELSE o.metadata[s]],
                        !.last = [NoOperation EXCEPT !.op = "create",
                                                     !.session_id = session_id,
                                                     !.user_type = requested]]
    /\ UNCHANGED <<g, h, store, user_type, turn, nturns>>

\* the sessions ConversationCommand.execute can be called for: the created
\* ones and the identifiers a client made up
KnownSessions == DOMAIN o.metadata \cup ClientIds

\* conversation.py lines 187-207, the answer to a clarification request:
\* text_to_sql is called with the tier of the session, and its guardrail
\* calls are made with the tier it was called with
ClarificationAnswer ==
    /\ o.pc = "session"
    /\ \E session_id \in KnownSessions :
         \E ut \in {MetadataUserType(get_session_metadata(o.metadata, session_id))} :
           \/ \E r \in {x \in text_to_sql(<<"show">>, ut) : x.orch_sql = <<>>} :
                o' = [o EXCEPT !.last = [op |-> "clarification", session_id |-> session_id,
                                         user_type |-> ut, raised |-> r.raised,
                                         guardrail |-> {}]]
           \/ \E initial_result \in {x \in ToolInitialResults : ReachesOrchestrator(x)} :
                \E complexity_analysis \in
                       {_analyze_query_complexity(<<"show">>, initial_result.sql_text)} :
                  \E validation_results \in
                         StrategyResults(complexity_analysis.strategy,
                                         initial_result.sql_text, ut) :
                    o' = [o EXCEPT !.last = [op |-> "clarification",
                                             session_id |-> session_id,
                                             user_type |-> ut, raised |-> FALSE,
                                             guardrail |-> GuardrailResults(validation_results)]]
    /\ UNCHANGED <<g, h, store, user_type, turn, nturns>>

\* conversation.py lines 235-267, the generation branch: text_to_sql is
\* called with the tier of the session and with keywords its signature does
\* not have; the call raises before any validation
GenerationRequest ==
    /\ o.pc = "session"
    /\ \E session_id \in KnownSessions :
         \E ut \in {MetadataUserType(get_session_metadata(o.metadata, session_id))} :
           o' = [o EXCEPT !.last = [op |-> "generation", session_id |-> session_id,
                                    user_type |-> ut, raised |-> TRUE, guardrail |-> {}]]
    /\ UNCHANGED <<g, h, store, user_type, turn, nturns>>

SessionNext ==
    \/ CreateSession
    \/ ClarificationAnswer
    \/ GenerationRequest

SpecSession == SessionInit /\ [][SessionNext]_vars

\* the tier of a session as the metadata store tells it
TierOf(metadata, session_id) ==
    IF session_id \in DOMAIN metadata THEN metadata[session_id].user_type ELSE "user"

\* C36: the tier of a session is fixed when it is created, as 'user' or
\* 'admin', and never changes; text_to_sql and each of its guardrail calls
\* made for a session get that tier, and 'user' for a session identifier
\* that has no metadata
C36_TierFixedAtCreation ==
    [][/\ \A s \in DOMAIN o.metadata :
             /\ s \in DOMAIN o'.metadata
             /\ o'.metadata[s].user_type = o.metadata[s].user_type
       /\ \A s \in DOMAIN o'.metadata : o'.metadata[s].user_type \in {"user", "admin"}
       /\ o'.last.op \in {"clarification", "generation"}
             => /\ o'.last.user_type = TierOf(o'.metadata, o'.last.session_id)
                /\ \A call \in o'.last.guardrail :
                      call.user_type = TierOf(o'.metadata, o'.last.session_id)]_vars

\* the guardrail ran for an admin session while a user session exists
C36_Witness ==
    /\ o.last.op = "clarification"
    /\ o.last.session_id \in DOMAIN o.metadata
    /\ o.metadata[o.last.session_id].user_type = "admin"
    /\ o.last.guardrail # {}
    /\ \E s \in DOMAIN o.metadata : o.metadata[s].user_type = "user"

(***************************************************************************)
(* Specification SpecSchema: one call of strict_schema_validator.  o holds *)
(* the statement, the references _extract_schema_references found in it,   *)
(* what the oracle answers and the result.                                 *)
(***************************************************************************)
SchemaTables == {"t", "x"}

SchemaColumns == {"c", "y"}

\* the empty statement has no reference
SchemaInputs ==
    {in \in [sql : {<<>>, <<"select">>},
             extracted_refs : [tables : SUBSET SchemaTables, columns : SUBSET SchemaColumns],
             reply : SchemaReplies] :
         in.sql = <<>> => in.extracted_refs = [tables |-> {}, columns |-> {}]}

SchemaInit ==
    /\ o \in {[pc |-> "start", sql |-> in.sql, extracted_refs |-> in.extracted_refs,
                reply |-> in.reply, result |-> NoResult] : in \in SchemaInputs}
    /\ g = Idle
    /\ h = Idle
    /\ store = <<>>
    /\ user_type = "user"
    /\ turn = Idle
    /\ nturns = 0

\* lines 40-84
SchemaCall ==
    /\ o.pc = "start"
    /\ o' = [o EXCEPT !.pc = "done",
                      !.result = strict_schema_validator(
                                     o.sql,
                                     _validate_schema_references(o.extracted_refs, LiveCatalog),
                                     o.reply)]
    /\ UNCHANGED <<g, h, store, user_type, turn, nturns>>

SchemaNext == SchemaCall

SpecSchema == SchemaInit /\ [][SchemaNext]_vars

\* the extracted references that are absent from the catalog
AbsentTables == o.extracted_refs.tables \ LiveCatalog.all_tables

AbsentColumns == o.extracted_refs.columns \ LiveCatalog.all_columns

\* C37: when an extracted table or column is absent from the catalog the
\* result has is_valid false and lists the absent references in
\* missing_tables and missing_columns, whatever the oracle answered;
\* otherwise is_valid is true exactly when the oracle-backed pass ran and
\* returned validation_result pass
C37_AbsentReferencesListed ==
    o.pc = "done" =>
        IF AbsentTables # {} \/ AbsentColumns # {}
        THEN /\ ~o.result.is_valid
             /\ o.result.missing_tables = AbsentTables
             /\ o.result.missing_columns = AbsentColumns
        ELSE o.result.is_valid <=> (o.sql # <<>> /\ o.reply.validation_result = "pass")

====
